---- MODULE Spec2Model ----
(***************************************************************************)
(* The retrieval-and-answer pipeline of askai: ChatService.chat            *)
(* (src/src/app/api/chat.py) with its collaborators in                     *)
(* src/src/app/rag/gemini.py, src/src/app/api/search.py and                *)
(* src/src/app/rag/retriever.py, and the POST /api/chat handler around it  *)
(* (src/src/app/api/main.py).                                              *)
(*                                                                         *)
(* Specifications.  Spec: every chat() call.  SpecRetrieval: the retrieval *)
(* of one question over a larger corpus.  SpecRequest: one /api/chat       *)
(* request for every text the extraction prompt may be answered with.      *)
(* SpecFailures: one call whose composers and searches fail or not as      *)
(* decided beforehand.  SpecCandidates: the retrieval over rows with NULL  *)
(* columns.  SpecTwice: two calls with fixed collaborators.  SpecSearch:   *)
(* the keyword statement on the questions table.  SpecClassification: one *)
(* request whose classification prompt is answered with a known text.      *)
(* SpecBackfill: the parallel embedding backfill                           *)
(* (src/src/app/rag/embeddings.py).  SpecCrawl: one scrape() call          *)
(* (src/src/app/scraper/scraper.py).                                       *)
(*                                                                         *)
(* Representation.  A Python str is a tuple of one-character strings, so   *)
(* that lower(), upper(), strip() and the `in` substring test are computed *)
(* character by character.  A Python value that may be None is wrapped:    *)
(* Str(t) or None.  Scores are kept in thousandths: match_score 2 is 2000, *)
(* a cosine similarity of 0.55 is 550.  A dict is a function on its keys,  *)
(* so a missing key is a key outside DOMAIN.                               *)
(***************************************************************************)
EXTENDS Integers, Sequences, FiniteSets, TLC

(***************************************************************************)
(* Bounds of the model.                                                    *)
(***************************************************************************)
\* longest list of rows the keyword search gives (the code asks for 10)
MaxKw == 6
\* longest list of rows the vector search gives (the code asks for 10), and
\* the number of document ids, when the whole request is explored
MaxVecRequest == 2
MaxIdRequest == 3
\* the same two when only the retrieval is explored
MaxVec == 3
MaxId == 4

(***************************************************************************)
(* Python values: a str, a list, None.                                     *)
(***************************************************************************)
Str(t) == [type |-> "str", val |-> t]

List(l) == [type |-> "list", val |-> l]

None == [type |-> "NoneType"]

\* an exception raised by a collaborator (API error, storage error)
Err == [type |-> "error"]

Min(S) == CHOOSE x \in S : \A y \in S : x <= y

Max(S) == CHOOSE x \in S : \A y \in S : x >= y

UpperChars == <<"A","B","C","D","E","F","G","H","I","J","K","L","M",
                "N","O","P","Q","R","S","T","U","V","W","X","Y","Z">>

LowerChars == <<"a","b","c","d","e","f","g","h","i","j","k","l","m",
                "n","o","p","q","r","s","t","u","v","w","x","y","z">>

Whitespace == {" ", "\n", "\t"}

\* str.lower(), one character
LowerChar(c) ==
    IF \E i \in 1..Len(UpperChars) : UpperChars[i] = c
    THEN LowerChars[CHOOSE i \in 1..Len(UpperChars) : UpperChars[i] = c]
    ELSE c

\* str.upper(), one character
UpperChar(c) ==
    IF \E i \in 1..Len(LowerChars) : LowerChars[i] = c
    THEN UpperChars[CHOOSE i \in 1..Len(LowerChars) : LowerChars[i] = c]
    ELSE c

Lower(t) == [i \in 1..Len(t) |-> LowerChar(t[i])]

Upper(t) == [i \in 1..Len(t) |-> UpperChar(t[i])]

\* str.strip()
Strip(t) ==
    LET keep == {i \in 1..Len(t) : t[i] \notin Whitespace}
    IN  IF keep = {} THEN <<>> ELSE SubSeq(t, Min(keep), Max(keep))

\* the Python test `p in t` on two strs
Contains(t, p) ==
    \E i \in 1..(Len(t) - Len(p) + 1) : SubSeq(t, i, i + Len(p) - 1) = p

\* dict.get(k, default)
Get(d, k, default) == IF k \in DOMAIN d THEN d[k] ELSE default

(***************************************************************************)
(* gemini.py: the generative collaborators.  The text the model returns is *)
(* the `response` argument: Err (the API call raises), None (a response    *)
(* whose .text is None) or Str(t).  Every operator returns                  *)
(* [raised |-> TRUE] or [raised |-> FALSE, value |-> v].                    *)
(***************************************************************************)
Raise == [raised |-> TRUE]

Return(v) == [raised |-> FALSE, value |-> v]

QUESTION_TOKEN == <<"S","A","V","O","L">>

\* a classification that looks for the token without upper-casing
classify_message_case_sensitive(response) ==
    IF response.type # "str"
    THEN Raise
    ELSE Return(Contains(Strip(response.val), QUESTION_TOKEN))

\* gemini.py:195-204: response.text.strip().upper(), then "SAVOL" in result
classify_message(response) ==
    IF response.type # "str"
    THEN Raise
    ELSE Return(Contains(Upper(Strip(response.val)), QUESTION_TOKEN))

\* gemini.py:223-231: returns response.text.strip()
generate_conversational_response(response) ==
    IF response.type # "str" THEN Raise ELSE Return(Strip(response.val))

DISCLAIMER == "Bu javob sun'iy intellekt tomonidan berildi. Aniq fatvo uchun mahalliy imom yoki O'zbekiston Musulmonlar Idorasiga murojaat qiling."

\* the fallback with the disclaimer text left empty
generate_fallback_answer_empty_disclaimer(response) ==
    IF response.type = "error"
    THEN Raise
    ELSE Return([answer |-> response, disclaimer |-> ""])

\* gemini.py:412-426: returns {"answer": response.text, "disclaimer": disclaimer};
\* response.text is not dereferenced, so None passes through as the answer
generate_fallback_answer(response) ==
    IF response.type = "error"
    THEN Raise
    ELSE Return([answer |-> response, disclaimer |-> DISCLAIMER])

\* a composer that answers with an apology when the API call raises
generate_answer_apology(context, response) ==
    IF \E i \in 1..Len(context) : {"title", "answer"} \ DOMAIN context[i] # {}
    THEN Raise
    ELSE IF response.type = "error"
    THEN Return(Str(<<"U","z","r">>))
    ELSE Return(response)

\* gemini.py:298-304 and 345-353: the context is built from item['title'] and
\* item['answer'] of every candidate, then response.text is returned as it is
generate_answer(context, response) ==
    IF \E i \in 1..Len(context) : {"title", "answer"} \ DOMAIN context[i] # {}
    THEN Raise
    ELSE IF response.type = "error" THEN Raise ELSE Return(response)

(***************************************************************************)
(* gemini.py:136-164, extract_search_keywords.  response.text is a tuple   *)
(* of tokens: the fence ```, a newline, a space, a word that is no JSON    *)
(* (the language tag after a fence, prose), or one whole JSON document.    *)
(* A JSON object is a dict, a JSON list of strings a list of strs, a JSON  *)
(* null is None.                                                           *)
(***************************************************************************)
Fence == [t |-> "fence"]

Newline == [t |-> "newline"]

Space == [t |-> "space"]

Word == [t |-> "word"]

Json(d) == [t |-> "json", doc |-> d]

Dict(d) == [type |-> "dict", val |-> d]

\* str.strip() on tokens
StripText(s) ==
    LET solid == {i \in 1..Len(s) : s[i].t \notin {"newline", "space"}}
    IN  IF solid = {} THEN <<>> ELSE SubSeq(s, Min(solid), Max(solid))

\* gemini.py:148, result_text.startswith("```")
StartsWithFence(s) == s # <<>> /\ s[1].t = "fence"

\* gemini.py:149, result_text.split("\n", 1)[1]; without a newline the list
\* has one element and [1] is an IndexError
AfterFirstNewline(s) ==
    LET nl == {i \in 1..Len(s) : s[i].t = "newline"}
    IN  IF nl = {} THEN Raise ELSE Return(SubSeq(s, Min(nl) + 1, Len(s)))

\* gemini.py:150, result_text.rsplit("```", 1)[0]
BeforeLastFence(s) ==
    LET fences == {i \in 1..Len(s) : s[i].t = "fence"}
    IN  IF fences = {} THEN s ELSE SubSeq(s, 1, Max(fences) - 1)

\* gemini.py:151, json.loads: one document with whitespace around it, and a
\* json.JSONDecodeError for anything else
json_loads(s) ==
    LET body == StripText(s)
    IN  IF Len(body) = 1 /\ body[1].t = "json"
        THEN Return(body[1].doc) ELSE Raise

\* gemini.py:157-164
FallbackKeywords(query) ==
    [primary_keywords |-> List(<<query>>),
     related_keywords |-> List(<<>>),
     rewritten_query  |-> Str(query)]

extract_search_keywords(query, response) ==
    \* line 136: the API call raises
    IF response.type = "error" THEN Raise
    \* line 146: None.strip() is an AttributeError, which the except clause
    \* (json.JSONDecodeError, KeyError) does not catch
    ELSE IF response.type # "str" THEN Raise
    ELSE LET result_text == StripText(response.val)
             rest == AfterFirstNewline(result_text)
         IN  \* line 149: the IndexError is not caught either
             IF StartsWithFence(result_text) /\ rest.raised THEN Raise
             ELSE LET result == json_loads(IF StartsWithFence(result_text)
                                           THEN BeforeLastFence(rest.value)
                                           ELSE result_text)
                  IN  \* lines 157-164
                      IF result.raised THEN Return(FallbackKeywords(query))
                      \* line 153: only a dict has .get, an AttributeError
                      ELSE IF result.value.type # "dict" THEN Raise
                      ELSE Return(
                        [primary_keywords |->
                            Get(result.value.val, "primary_keywords", List(<<>>)),
                         related_keywords |->
                            Get(result.value.val, "related_keywords", List(<<>>)),
                         rewritten_query  |->
                            Get(result.value.val, "rewritten_query", Str(query))])

(***************************************************************************)
(* search.py and retriever.py: the two storage searches.  `db` is what the *)
(* SQL statement gives: [ok |-> FALSE] (the connection or the statement    *)
(* raises) or [ok |-> TRUE, rows |-> r], r already ordered and limited by  *)
(* the statement.                                                          *)
(***************************************************************************)
\* search.py:93-150
search_by_keywords(keywords, db) ==
    IF keywords = <<>> THEN Return(<<>>)
    ELSE IF ~db.ok THEN Raise
    ELSE Return(db.rows)

\* a vector search that gives no rows when the statement raises
search_similar_empty_on_failure(db) ==
    IF ~db.ok THEN Return(<<>>) ELSE Return(db.rows)

\* retriever.py:27-52
search_similar(db) ==
    IF ~db.ok THEN Raise ELSE Return(db.rows)

(***************************************************************************)
(* chat.py: the pure parts of ChatService.chat.                            *)
(***************************************************************************)
\* the test `history is not None`, which takes an empty list for a history
has_history_not_none(h) == h.type = "list"

\* chat.py:66: history and len(history) > 0
has_history(h) == h.type = "list" /\ Len(h.val) > 0

\* chat.py:111, in number of candidates
MIN_KEYWORD_RESULTS == 3

\* chat.py:125, 0.55 in thousandths
RELEVANCE_FLOOR == 550

\* chat.py:127 and 143, the multiplier of a similarity
VECTOR_WEIGHT == 3

\* chat.py:145, the [:5] slice
TOP_K == 5

\* chat.py:178, the divisor of match_score
DISPLAY_DIVISOR == 6

\* the threshold test written <=
NeedsEmbeddingAtMost(kw) == Len(kw) <= MIN_KEYWORD_RESULTS

\* chat.py:111
NeedsEmbedding(kw) == Len(kw) < MIN_KEYWORD_RESULTS

\* the floor test written >
PassesFloorStrict(r) == r.relevance > RELEVANCE_FLOOR

\* chat.py:125
PassesFloor(r) == r.relevance >= RELEVANCE_FLOOR

\* chat.py:127: r["match_score"] = r["relevance"] * 3
WithMatchScore(r) ==
    [k \in DOMAIN r \cup {"match_score"} |->
        IF k = "match_score" THEN r.relevance * VECTOR_WEIGHT ELSE r[k]]

\* the merge without the `r["id"] not in keyword_ids` test
MergeEmbeddingNoDedup(kw, emb) ==
    LET added == SelectSeq(emb, PassesFloor)
    IN  kw \o [i \in 1..Len(added) |-> WithMatchScore(added[i])]

\* the merge without the similarity floor
MergeEmbeddingNoFloor(kw, emb) ==
    LET keyword_ids == {kw[i].id : i \in 1..Len(kw)}
        Admit(r) == r.id \notin keyword_ids
        added == SelectSeq(emb, Admit)
    IN  kw \o [i \in 1..Len(added) |-> WithMatchScore(added[i])]

\* chat.py:121-128: keyword_ids is computed once, before the loop
MergeEmbedding(kw, emb) ==
    LET keyword_ids == {kw[i].id : i \in 1..Len(kw)}
        Admit(r) == r.id \notin keyword_ids /\ PassesFloor(r)
        added == SelectSeq(emb, Admit)
    IN  kw \o [i \in 1..Len(added) |-> WithMatchScore(added[i])]

\* chat.py:123-125: the two tests a vector row passes before it is appended
Admitted(kw, r) == r.id \notin {kw[i].id : i \in 1..Len(kw)} /\ PassesFloor(r)

\* chat.py:127 assigns into the dict the retriever returned: the list
\* search_similar gave, after the loop has gone through its first n rows
ChangedInPlace(kw, emb, n) ==
    [i \in 1..Len(emb) |->
        IF i <= n /\ Admitted(kw, emb[i]) THEN WithMatchScore(emb[i]) ELSE emb[i]]

\* a column that is NULL in the table, None in the row dict
SqlNull == "NULL"

\* chat.py:107, the [:3] slice of the debug loop
DEBUG_ROWS == 3

\* chat.py:107-108: r['title'][:50] of the first rows; None[:50] is a TypeError
PrintRaises(rows) ==
    \E i \in 1..Len(rows) : i <= DEBUG_ROWS /\ rows[i].title = SqlNull

\* chat.py:143: x.get("match_score", 0) + x.get("relevance", 0) * 3
SortKey(x) == Get(x, "match_score", 0) + Get(x, "relevance", 0) * VECTOR_WEIGHT

\* sorted(..., reverse=True) is stable: of two candidates with equal keys the
\* one earlier in the input stays earlier
InsertDesc(s, x) ==
    LET lower == {i \in 1..Len(s) : SortKey(s[i]) < SortKey(x)}
        p == IF lower = {} THEN Len(s) + 1 ELSE Min(lower)
    IN  SubSeq(s, 1, p - 1) \o <<x>> \o SubSeq(s, p, Len(s))

RECURSIVE SortedDesc(_)
SortedDesc(l) ==
    IF l = <<>> THEN <<>>
    ELSE InsertDesc(SortedDesc(SubSeq(l, 1, Len(l) - 1)), l[Len(l)])

\* chat.py:141-145
SortTop(l) ==
    LET s == SortedDesc(l)
    IN  SubSeq(s, 1, IF Len(s) < TOP_K THEN Len(s) ELSE TOP_K)

\* the integer nearest to n / d for n >= 0, d > 0, a tie going to the even one
RoundDiv(n, d) ==
    LET q == n \div d
        r == n % d
    IN  IF 2 * r < d THEN q
        ELSE IF 2 * r > d THEN q + 1
        ELSE IF q % 2 = 0 THEN q ELSE q + 1

\* a relevance that shows the keyword score as it is, not divided
DisplayRelevanceUndivided(item) ==
    IF "relevance" \in DOMAIN item
    THEN RoundDiv(item.relevance, 10)
    ELSE RoundDiv(Get(item, "match_score", 0), 10)

\* chat.py:177-180: round(item.get("relevance", item.get("match_score", 0) / 6), 2),
\* in hundredths
DisplayRelevance(item) ==
    IF "relevance" \in DOMAIN item
    THEN RoundDiv(item.relevance, 10)
    ELSE RoundDiv(Get(item, "match_score", 0), 10 * DISPLAY_DIVISOR)

\* sources built only from the candidates that carry a similarity
SourcesWithRelevanceOnly(sorted) ==
    LET HasRelevance(item) == "relevance" \in DOMAIN item
        kept == SelectSeq(sorted, HasRelevance)
    IN  [i \in 1..Len(kept) |->
            [id |-> kept[i].id,
             title |-> kept[i].title,
             relevance |-> DisplayRelevance(kept[i])]]

\* sources listed from the last candidate to the first
SourcesReversed(sorted) ==
    [i \in 1..Len(sorted) |->
        [id |-> sorted[Len(sorted) + 1 - i].id,
         title |-> sorted[Len(sorted) + 1 - i].title,
         relevance |-> DisplayRelevance(sorted[Len(sorted) + 1 - i])]]

\* chat.py:173-183
Sources(sorted) ==
    [i \in 1..Len(sorted) |->
        [id |-> sorted[i].id,
         title |-> sorted[i].title,
         relevance |-> DisplayRelevance(sorted[i])]]

\* chat.py:153-158
not_found_phrases ==
    { <<"t","o","p","i","l","m","a","d","i">>,
      <<"m","a","v","j","u","d"," ","e","m","a","s">>,
      <<"m","a","'","l","u","m","o","t"," ","y","o","'","q">>,
      <<"j","a","v","o","b"," ","y","o","'","q">> }

\* the phrase test without answer.lower()
sources_insufficient_case_sensitive(answer_text) ==
    \E phrase \in not_found_phrases : Contains(answer_text, phrase)

\* chat.py:159-160
sources_insufficient(answer_text) ==
    \E phrase \in not_found_phrases : Contains(Lower(answer_text), phrase)

\* chat.py:72-76
ConversationalResult(response_text) ==
    [answer |-> Str(response_text),
     sources |-> <<>>,
     source_type |-> "conversational"]

\* the ai_knowledge dict without its disclaimer key
AiKnowledgeResultNoDisclaimer(fallback_result) ==
    [answer |-> fallback_result.answer,
     sources |-> <<>>,
     source_type |-> "ai_knowledge"]

\* chat.py:82-87, 165-170 and 195-200
AiKnowledgeResult(fallback_result) ==
    [answer |-> fallback_result.answer,
     sources |-> <<>>,
     source_type |-> "ai_knowledge",
     disclaimer |-> fallback_result.disclaimer]

\* chat.py:185-189
DatabaseResult(answer_value, sorted) ==
    [answer |-> answer_value,
     sources |-> Sources(sorted),
     source_type |-> "database"]

(***************************************************************************)
(* The inputs of one request and what the collaborators may answer.        *)
(***************************************************************************)
Messages == { <<"n","a","m","o","z">> }

Histories ==
    { None,
      List(<<>>),
      List(<<[role |-> "user", content |-> <<"X","o","p">>]>>) }

ClassifyResponses ==
    { Err, None,
      Str(<<"S","A","V","O","L">>),
      Str(<<" ","S","a","v","o","l","\n">>),
      Str(<<"S","U","H","B","A","T">>),
      Str(<<>>) }

ConversationalResponses == { Err, None, Str(<<" ","S","a","l","o","m"," ">>) }

FallbackResponses == { Err, None, Str(<<"J","a","v","o","b">>) }

GroundedResponses ==
    { Err, None,
      Str(<<"N","a","m","o","z"," ","f","a","r","z">>),
      Str(<<"t","o","p","i","l","m","a","d"," ","i">>),
      Str(<<"T","O","P","I","L","M","A","D","I">>),
      Str(<<"M","a","v","j","u","d"," ","E","m","a","s">>),
      Str(<<"m","a","'","l","u","m","o","t"," ","y","o","'","q">>),
      Str(<<"J","a","v","o","b"," ","Y","o","'","q",".">>) }

\* the corpus is indexed in Cyrillic; the extracted keyword is written here in
\* ASCII letters that differ from the message
Keyword == <<"s","a","l","o","t">>

Rewritten == Str(<<"s","a","l","o","t","?">>)

\* the JSON objects the extraction prompt may be answered with: all three
\* keys, empty keyword lists, no key at all, a null keyword list, one key only
FullExtraction ==
    [primary_keywords |-> List(<<Keyword>>),
     related_keywords |-> List(<<Keyword>>),
     rewritten_query  |-> Rewritten]

ExtractionObjects ==
    { FullExtraction,
      [primary_keywords |-> List(<<>>),
       related_keywords |-> List(<<>>),
       rewritten_query  |-> Rewritten],
      [k \in {} |-> None],
      [primary_keywords |-> None,
       related_keywords |-> List(<<Keyword>>),
       rewritten_query  |-> Rewritten],
      [related_keywords |-> List(<<Keyword>>)] }

\* how a JSON document comes back: bare, with whitespace around it, inside
\* a ```json fence, with the closing fence missing, inside a fence without
\* any newline, followed by a stray fence, after a line of prose, and with
\* prose and another fence after the closing fence
Layouts(d) ==
    { << Json(d) >>,
      << Newline, Json(d), Space >>,
      << Fence, Word, Newline, Json(d), Newline, Fence >>,
      << Fence, Word, Newline, Json(d) >>,
      << Fence, Json(d), Fence >>,
      << Json(d), Newline, Fence >>,
      << Word, Newline, Fence, Newline, Json(d), Newline, Fence >>,
      << Fence, Word, Newline, Json(d), Newline, Fence, Newline, Word, Fence >> }

\* texts without a JSON document: the empty text, prose, a lone fence
Prose == { <<>>, << Space >>, << Word >>, << Fence >>, << Fence, Newline >>,
           << Fence, Newline, Word, Newline, Fence >> }

\* JSON documents that are no object: a list, a string, null
NonObjects == { List(<<Keyword>>), Str(Keyword), None }

\* a JSON object whose keyword lists are strings
StringKeywords ==
    [primary_keywords |-> Str(Keyword),
     related_keywords |-> Str(Keyword),
     rewritten_query  |-> Rewritten]

ExtractionResponses ==
    { Err, None }
    \cup { Str(<< Json(Dict(o)) >>) : o \in ExtractionObjects }
    \cup { Str(t) : t \in Layouts(Dict(FullExtraction)) }
    \cup { Str(<< Json(List(<<Keyword>>)) >>), Str(<< Word >>), Str(<<>>) }

\* every layout of every document
ExtractionResponsesAll ==
    { Err, None }
    \cup { Str(t) : t \in Prose }
    \cup UNION { { Str(t) : t \in Layouts(d) } :
                 d \in { Dict(o) : o \in ExtractionObjects \cup {StringKeywords} }
                       \cup NonObjects }

\* match_score: 2 per title hit and 1 per answer hit, at least one hit
MatchScores == {1000, 3000}

\* cosine similarities
Relevances == {500, 540, 550, 600, 900}

\* the similarities next to the floor
RelevancesRequest == {540, 550}

NonIncreasing(n, S) ==
    { f \in [1..n -> S] : \A i \in 1..(n - 1) : f[i] >= f[i + 1] }

Injective(n, S) ==
    { f \in [1..n -> S] : \A i, j \in 1..n : f[i] = f[j] => i = j }

Row(i) == [id |-> i, title |-> "Q" \o ToString(i), answer |-> "A" \o ToString(i)]

\* ids are only ever compared for equality (chat.py:121-123), so the rows of
\* the keyword search are numbered by their rank; the statement orders them by
\* match_score descending (search.py:142)
KeywordRows ==
    UNION { { [i \in 1..n |->
                [k \in {"id", "title", "answer", "match_score"} |->
                    IF k = "match_score" THEN sc[i] ELSE Row(i)[k]]] :
              sc \in NonIncreasing(n, MatchScores) } :
            n \in 0..MaxKw }

\* the rows of the vector search: distinct ids in any order, ordered by
\* similarity descending (retriever.py:45)
VectorRows(maxLen, maxId, rels) ==
    UNION { { [i \in 1..n |->
                [k \in {"id", "title", "answer", "relevance"} |->
                    IF k = "relevance" THEN rl[i] ELSE Row(ids[i])[k]]] :
              ids \in Injective(n, 1..maxId), rl \in NonIncreasing(n, rels) } :
            n \in 0..maxLen }

Db(rows) == { [ok |-> FALSE] } \cup { [ok |-> TRUE, rows |-> r] : r \in rows }

KeywordDb == Db(KeywordRows)

VectorDbRequest == Db(VectorRows(MaxVecRequest, MaxIdRequest, RelevancesRequest))

VectorDb == Db(VectorRows(MaxVec, MaxId, Relevances))

\* the answers that tell the two outcomes of the not-found check apart
GroundedResponsesRetrieval ==
    { Str(<<"N","a","m","o","z"," ","f","a","r","z">>),
      Str(<<"T","O","P","I","L","M","A","D","I">>) }

FallbackResponsesRetrieval == { Str(<<"J","a","v","o","b">>) }

(***************************************************************************)
(* The state of one ChatService.chat call, and around it the collaborators *)
(* it is given, the /api/chat handler and the questions table.             *)
(***************************************************************************)
VARIABLES
    pc,                 \* where the call stands
    message,            \* argument
    history,            \* argument: None or a list
    is_question,        \* chat.py:67
    keyword_result,     \* chat.py:91
    keyword_results,    \* chat.py:100, appended to at line 128
    embedding_results,  \* chat.py:115
    sorted_results,     \* chat.py:141
    answer,             \* chat.py:149
    result,             \* the dict chat() returns
    calls,              \* the collaborator calls made so far, with what they gave
    fixed,              \* collaborator name -> the output it is fixed to, if any
    aliased,            \* a fixed collaborator hands out the same objects each time
    returned,           \* what the earlier chat() calls on this service returned
    saved,              \* the rows the /api/chat handler wrote (main.py:147-168)
    http_response,      \* what the /api/chat handler answers (main.py:176)
    corpus,             \* the questions table search_by_keywords reads
    search_call,        \* the arguments of one search_by_keywords call
    search_rows,        \* what that call returned
    questions,          \* embeddings.py:126, the ids fetched for the backfill
    API_KEYS,           \* embeddings.py:16-23
    workers,            \* embeddings.py:146
    worker_connections, \* embeddings.py:149
    question_batches,   \* embeddings.py:152-154
    progress,           \* per worker, how far its loop at embeddings.py:160 is
    stop_flag,          \* embeddings.py:157
    work,               \* the embed calls and UPDATEs made so far
    current_url,        \* scraper.py:292, the page number in /s/N
    consecutive_failures, \* scraper.py:46
    pages_scraped,      \* scraper.py:45
    visited_urls,       \* scraper.py:43
    max_pages,          \* scraper.py:35
    question_urls,      \* the urls in the questions table (db.question_exists)
    requests,           \* the number of _make_request calls so far
    page_outcome        \* how the last loop iteration of scrape() went

\* the embedding backfill (embeddings.py)
backfill == <<questions, API_KEYS, workers, worker_connections, question_batches,
              progress, stop_flag, work>>

\* the crawl (scraper.py)
crawl == <<current_url, consecutive_failures, pages_scraped, visited_urls,
           max_pages, question_urls, requests, page_outcome>>

\* what lies outside one chat() call
outside == <<returned, saved, http_response, corpus, search_call, search_rows,
             backfill, crawl>>

stubs == <<fixed, aliased>>

vars == <<pc, message, history, is_question, keyword_result, keyword_results,
          embedding_results, sorted_results, answer, result, calls,
          stubs, outside>>

Unset == [type |-> "unset"]

Call(fn, ret) == [fn |-> fn, ret |-> ret]

Called(fn) == \E i \in 1..Len(calls) : calls[i].fn = fn

Collaborators ==
    { "classify_message", "generate_conversational_response",
      "generate_fallback_answer", "extract_search_keywords",
      "search_by_keywords", "generate_query_embedding", "search_similar",
      "generate_answer" }

FixedTo(v) == [set |-> TRUE, to |-> v]

\* no collaborator is fixed: each call may give any of its outputs
Unfixed == [fn \in Collaborators |-> [set |-> FALSE]]

\* what collaborator fn may give: its fixed output, or any output in S
Outputs(fn, S) == IF fixed[fn].set THEN {fixed[fn].to} ELSE S

\* nothing has happened around the call
\* no backfill and no crawl is running
BatchJobsIdle ==
    /\ questions = <<>>
    /\ API_KEYS = <<>>
    /\ workers = <<>>
    /\ worker_connections = <<>>
    /\ question_batches = <<>>
    /\ progress = <<>>
    /\ stop_flag = FALSE
    /\ work = {}
    /\ current_url = 0
    /\ consecutive_failures = 0
    /\ pages_scraped = 0
    /\ visited_urls = {}
    /\ max_pages = 0
    /\ question_urls = {}
    /\ requests = 0
    /\ page_outcome = "none"

Idle ==
    /\ BatchJobsIdle
    /\ returned = <<>>
    /\ saved = <<>>
    /\ http_response = Unset
    /\ corpus = <<>>
    /\ search_call = Unset
    /\ search_rows = <<>>

Init ==
    /\ pc = "start"
    /\ message \in Messages
    /\ history \in Histories
    /\ is_question = FALSE
    /\ keyword_result = Unset
    /\ keyword_results = <<>>
    /\ embedding_results = <<>>
    /\ sorted_results = <<>>
    /\ answer = Unset
    /\ result = Unset
    /\ calls = <<>>
    /\ fixed = Unfixed
    /\ aliased = FALSE
    /\ Idle

\* chat.py:67
Classify(responses) ==
    /\ pc = "start"
    /\ \E response \in Outputs("classify_message", responses) :
        LET r == classify_message(response)
        IN  /\ calls' = Append(calls, Call("classify_message", r))
            /\ IF r.raised
               THEN pc' = "raised" /\ UNCHANGED is_question
               ELSE pc' = "classified" /\ is_question' = r.value
    /\ UNCHANGED <<outside, stubs, message, history, keyword_result, keyword_results,
                   embedding_results, sorted_results, answer, result>>

\* chat.py:69-76
ConversationalReply(responses) ==
    /\ pc = "classified"
    /\ ~is_question /\ ~has_history(history)
    /\ \E response \in Outputs("generate_conversational_response", responses) :
        LET r == generate_conversational_response(response)
        IN  /\ calls' = Append(calls, Call("generate_conversational_response", r))
            /\ IF r.raised
               THEN pc' = "raised" /\ UNCHANGED result
               ELSE pc' = "done" /\ result' = ConversationalResult(r.value)
    /\ UNCHANGED <<outside, stubs, message, history, is_question, keyword_result, keyword_results,
                   embedding_results, sorted_results, answer>>

\* chat.py:78-87
FollowUpReply(responses) ==
    /\ pc = "classified"
    /\ ~is_question /\ has_history(history)
    /\ \E response \in Outputs("generate_fallback_answer", responses) :
        LET r == generate_fallback_answer(response)
        IN  /\ calls' = Append(calls, Call("generate_fallback_answer", r))
            /\ IF r.raised
               THEN pc' = "raised" /\ UNCHANGED result
               ELSE pc' = "done" /\ result' = AiKnowledgeResult(r.value)
    /\ UNCHANGED <<outside, stubs, message, history, is_question, keyword_result, keyword_results,
                   embedding_results, sorted_results, answer>>

\* an extraction that does not wait for the classification
ExtractKeywordsUnclassified(responses) ==
    /\ pc = "start"
    /\ \E response \in Outputs("extract_search_keywords", responses) :
        LET r == extract_search_keywords(message, response)
        IN  /\ calls' = Append(calls, Call("extract_search_keywords", r))
            /\ IF r.raised
               THEN pc' = "raised" /\ UNCHANGED keyword_result
               ELSE pc' = "extracted" /\ keyword_result' = r.value
    /\ UNCHANGED <<outside, stubs, message, history, is_question, keyword_results,
                   embedding_results, sorted_results, answer, result>>

\* chat.py:89-92
ExtractKeywords(responses) ==
    /\ pc = "classified"
    /\ is_question
    /\ \E response \in Outputs("extract_search_keywords", responses) :
        LET r == extract_search_keywords(message, response)
        IN  /\ calls' = Append(calls, Call("extract_search_keywords", r))
            /\ IF r.raised
               THEN pc' = "raised" /\ UNCHANGED keyword_result
               ELSE pc' = "extracted" /\ keyword_result' = r.value
    /\ UNCHANGED <<outside, stubs, message, history, is_question, keyword_results,
                   embedding_results, sorted_results, answer, result>>

\* chat.py:94-111: the keywords are joined, the keyword search runs unless
\* there is no keyword, its first rows are printed, and its count decides
\* whether the embedding search runs
KeywordSearch(dbs) ==
    /\ pc = "extracted"
    /\ LET p == keyword_result.primary_keywords
           q == keyword_result.related_keywords
       IN  IF p.type # q.type \/ p.type \notin {"list", "str"}
           THEN \* None + list and str + list are a TypeError
                /\ pc' = "raised"
                /\ UNCHANGED <<keyword_results, calls>>
           ELSE \* list + list; str + str is a str, whose characters the
                \* search takes for the keywords
                LET all_keywords == p.val \o q.val
                IN  IF all_keywords = <<>>
                    THEN /\ keyword_results' = <<>>
                         /\ pc' = IF NeedsEmbedding(<<>>) THEN "embedding" ELSE "merged"
                         /\ UNCHANGED calls
                    ELSE \E db \in Outputs("search_by_keywords", dbs) :
                           LET r == search_by_keywords(all_keywords, db)
                           IN  /\ calls' = Append(calls, Call("search_by_keywords", r))
                               /\ IF r.raised
                                  THEN pc' = "raised" /\ UNCHANGED keyword_results
                                  ELSE /\ keyword_results' = r.value
                                       /\ pc' = IF PrintRaises(r.value) THEN "raised"
                                                ELSE IF NeedsEmbedding(r.value)
                                                THEN "embedding" ELSE "merged"
    /\ UNCHANGED <<outside, stubs, message, history, is_question, keyword_result,
                   embedding_results, sorted_results, answer, result>>

\* chat.py:112-114
QueryEmbedding ==
    /\ pc = "embedding"
    /\ \E ok \in Outputs("generate_query_embedding", BOOLEAN) :
        /\ calls' = Append(calls, Call("generate_query_embedding",
                                       IF ok THEN Return(keyword_result.rewritten_query)
                                       ELSE Raise))
        /\ pc' = IF ok THEN "embedded" ELSE "raised"
    /\ UNCHANGED <<outside, stubs, message, history, is_question, keyword_result, keyword_results,
                   embedding_results, sorted_results, answer, result>>

\* chat.py:115-129: the loop stops at the first admitted row whose title
\* cannot be printed, after appending it; the rows are changed in place, so
\* a collaborator that hands out the same objects gives them changed next time
VectorSearch(dbs) ==
    /\ pc = "embedded"
    /\ \E db \in Outputs("search_similar", dbs) :
        LET r == search_similar(db)
        IN  /\ calls' = Append(calls, Call("search_similar", r))
            /\ IF r.raised
               THEN pc' = "raised" /\ UNCHANGED <<embedding_results, keyword_results, fixed>>
               ELSE LET unprintable ==
                          {i \in 1..Len(r.value) :
                              /\ Admitted(keyword_results, r.value[i])
                              /\ r.value[i].title = SqlNull}
                        seen == IF unprintable = {} THEN Len(r.value)
                                ELSE Min(unprintable)
                        changed == ChangedInPlace(keyword_results, r.value, seen)
                    IN  /\ embedding_results' = changed
                        /\ keyword_results' =
                              MergeEmbedding(keyword_results, SubSeq(r.value, 1, seen))
                        /\ pc' = IF unprintable = {} THEN "merged" ELSE "raised"
                        /\ fixed' =
                              IF ~aliased THEN fixed
                              ELSE [fixed EXCEPT
                                      !["search_similar"] =
                                          FixedTo([ok |-> TRUE, rows |-> changed]),
                                      !["search_by_keywords"] =
                                          IF Called("search_by_keywords")
                                          THEN FixedTo([ok |-> TRUE,
                                                        rows |-> keyword_results'])
                                          ELSE @]
    /\ UNCHANGED <<outside, aliased, message, history, is_question, keyword_result,
                   sorted_results, answer, result>>

\* chat.py:139-189
GroundedAnswer(responses) ==
    /\ pc = "merged"
    /\ keyword_results # <<>>
    /\ sorted_results' = SortTop(keyword_results)
    /\ \E response \in Outputs("generate_answer", responses) :
        LET r == generate_answer(sorted_results', response)
        IN  /\ calls' = Append(calls, Call("generate_answer", r))
            /\ IF r.raised
               THEN pc' = "raised" /\ UNCHANGED <<answer, result>>
               ELSE /\ answer' = r.value
                    /\ IF r.value.type # "str"
                       THEN \* line 159: None.lower() is an AttributeError
                            pc' = "raised" /\ UNCHANGED result
                       ELSE IF sources_insufficient(r.value.val)
                       THEN pc' = "insufficient" /\ UNCHANGED result
                       ELSE /\ pc' = "done"
                            /\ result' = DatabaseResult(r.value, sorted_results')
    /\ UNCHANGED <<outside, stubs, message, history, is_question, keyword_result, keyword_results,
                   embedding_results>>

\* chat.py:162-170
InsufficientFallback(responses) ==
    /\ pc = "insufficient"
    /\ \E response \in Outputs("generate_fallback_answer", responses) :
        LET r == generate_fallback_answer(response)
        IN  /\ calls' = Append(calls, Call("generate_fallback_answer", r))
            /\ IF r.raised
               THEN pc' = "raised" /\ UNCHANGED result
               ELSE pc' = "done" /\ result' = AiKnowledgeResult(r.value)
    /\ UNCHANGED <<outside, stubs, message, history, is_question, keyword_result, keyword_results,
                   embedding_results, sorted_results, answer>>

\* chat.py:191-200
NoSourcesFallback(responses) ==
    /\ pc = "merged"
    /\ keyword_results = <<>>
    /\ \E response \in Outputs("generate_fallback_answer", responses) :
        LET r == generate_fallback_answer(response)
        IN  /\ calls' = Append(calls, Call("generate_fallback_answer", r))
            /\ IF r.raised
               THEN pc' = "raised" /\ UNCHANGED result
               ELSE pc' = "done" /\ result' = AiKnowledgeResult(r.value)
    /\ UNCHANGED <<outside, stubs, message, history, is_question, keyword_result, keyword_results,
                   embedding_results, sorted_results, answer>>

Next ==
    \/ Classify(ClassifyResponses)
    \/ ConversationalReply(ConversationalResponses)
    \/ FollowUpReply(FallbackResponses)
    \/ ExtractKeywords(ExtractionResponses)
    \/ KeywordSearch(KeywordDb)
    \/ QueryEmbedding
    \/ VectorSearch(VectorDbRequest)
    \/ GroundedAnswer(GroundedResponses)
    \/ InsufficientFallback(FallbackResponses)
    \/ NoSourcesFallback(FallbackResponses)

\* every chat() call, with a small corpus
Spec == Init /\ [][Next]_vars

(***************************************************************************)
(* The retrieval alone: chat() from line 94 on, for one question whose     *)
(* keywords were extracted, with a larger corpus.                          *)
(***************************************************************************)
InitRetrieval ==
    /\ pc = "extracted"
    /\ message \in Messages
    /\ history = None
    /\ is_question = TRUE
    /\ keyword_result = FullExtraction
    /\ keyword_results = <<>>
    /\ embedding_results = <<>>
    /\ sorted_results = <<>>
    /\ answer = Unset
    /\ result = Unset
    /\ calls = << Call("classify_message", Return(TRUE)),
                  Call("extract_search_keywords", Return(FullExtraction)) >>
    /\ fixed = Unfixed
    /\ aliased = FALSE
    /\ Idle

NextRetrieval ==
    \/ KeywordSearch(KeywordDb)
    \/ QueryEmbedding
    \/ VectorSearch(VectorDb)
    \/ GroundedAnswer(GroundedResponsesRetrieval)
    \/ InsufficientFallback(FallbackResponsesRetrieval)
    \/ NoSourcesFallback(FallbackResponsesRetrieval)

SpecRetrieval == InitRetrieval /\ [][NextRetrieval]_vars

(***************************************************************************)
(* One POST /api/chat request (main.py:105-176): chat() and then the       *)
(* handler, for every text the extraction prompt may be answered with.     *)
(***************************************************************************)
\* main.py:132, if x_session_id
Truthy(x) == x.type = "str" /\ x.val # <<>>

\* the X-Session-Id header: absent, empty, a session id
SessionIds == { None, Str(<<>>), Str(<<"s","1">>) }

\* main.py:147-153
SessionRow(x_session_id) == [table |-> "sessions", id |-> x_session_id]

\* main.py:155-168 and db.py:655-663
ChatRow(x_session_id) ==
    [table       |-> "chat",
     session_id  |-> x_session_id,
     question    |-> message,
     answer      |-> result.answer,
     source_type |-> result.source_type,
     sources     |-> Get(result, "sources", <<>>),
     keywords    |-> Get(result, "_keywords", <<>>)]

\* main.py:56-67 and 105: the returned dict is validated against
\* ChatResponse, whose answer and source titles are str
ValidResponse(r) ==
    /\ r.answer.type = "str"
    /\ \A i \in 1..Len(r.sources) : r.sources[i].title # SqlNull

\* main.py:173, result.pop("_keywords", None)
WithoutKeywords(r) == [k \in DOMAIN r \ {"_keywords"} |-> r[k]]

\* a handler that lets a failed save fail the request
RespondFailingWithSave ==
    /\ pc = "done"
    /\ \E x_session_id \in SessionIds, written \in {"nothing", "session", "both"} :
        /\ saved' = IF ~Truthy(x_session_id) \/ written = "nothing" THEN saved
                    ELSE IF written = "session"
                    THEN Append(saved, SessionRow(x_session_id))
                    ELSE saved \o << SessionRow(x_session_id), ChatRow(x_session_id) >>
        /\ http_response' =
              IF ValidResponse(result) /\ (~Truthy(x_session_id) \/ written = "both")
              THEN [status |-> "ok", body |-> WithoutKeywords(result)]
              ELSE [status |-> "error"]
    /\ pc' = "responded"
    /\ UNCHANGED <<returned, corpus, search_call, search_rows, backfill, crawl,
                   stubs, message, history, is_question, keyword_result, keyword_results,
                   embedding_results, sorted_results, answer, result, calls>>

\* main.py:131-176: the rows are written one after the other, each in its own
\* transaction, and any failure on the way is caught and printed
Respond ==
    /\ pc = "done"
    /\ \E x_session_id \in SessionIds, written \in {"nothing", "session", "both"} :
        saved' = IF ~Truthy(x_session_id) \/ written = "nothing" THEN saved
                 ELSE IF written = "session"
                 THEN Append(saved, SessionRow(x_session_id))
                 ELSE saved \o << SessionRow(x_session_id), ChatRow(x_session_id) >>
    /\ http_response' =
          IF ValidResponse(result)
          THEN [status |-> "ok", body |-> WithoutKeywords(result)]
          ELSE [status |-> "error"]
    /\ pc' = "responded"
    /\ UNCHANGED <<returned, corpus, search_call, search_rows, backfill, crawl,
                   stubs, message, history, is_question, keyword_result, keyword_results,
                   embedding_results, sorted_results, answer, result, calls>>

MaxVecSmall == 1

KeywordDbSmall ==
    Db({ r \in KeywordRows : Len(r) \in {0, MIN_KEYWORD_RESULTS} })

VectorDbSmall == Db(VectorRows(MaxVecSmall, MaxVecSmall, {RELEVANCE_FLOOR}))

InitRequest ==
    /\ pc = "start"
    /\ message \in Messages
    \* main.py:122-124: an empty history is passed on as None
    /\ \E h \in Histories : history = IF has_history(h) THEN h ELSE None
    /\ is_question = FALSE
    /\ keyword_result = Unset
    /\ keyword_results = <<>>
    /\ embedding_results = <<>>
    /\ sorted_results = <<>>
    /\ answer = Unset
    /\ result = Unset
    /\ calls = <<>>
    /\ \E text \in ExtractionResponsesAll :
        fixed = [Unfixed EXCEPT !["extract_search_keywords"] = FixedTo(text)]
    /\ aliased = FALSE
    /\ Idle

NextRequest ==
    \/ Classify(ClassifyResponses)
    \/ ConversationalReply(ConversationalResponses)
    \/ FollowUpReply(FallbackResponsesRetrieval)
    \/ ExtractKeywords(ExtractionResponsesAll)
    \/ KeywordSearch(KeywordDbSmall)
    \/ QueryEmbedding
    \/ VectorSearch(VectorDbSmall)
    \/ GroundedAnswer(GroundedResponsesRetrieval)
    \/ InsufficientFallback(FallbackResponsesRetrieval)
    \/ NoSourcesFallback(FallbackResponsesRetrieval)
    \/ Respond

SpecRequest == InitRequest /\ [][NextRequest]_vars

(***************************************************************************)
(* One request whose classification prompt is answered with a known text.  *)
(***************************************************************************)
\* texts the model may answer the classification prompt with: the two words
\* asked for, in any case, with whitespace or with other words around them,
\* and texts that are neither
ClassificationTexts ==
    { Str(<<"S","A","V","O","L">>),
      Str(<<" ","S","a","v","o","l","\n">>),
      Str(<<"s","a","v","o","l",".">>),
      Str(<<"B","u"," ","s","A","V","O","l","!">>),
      Str(<<"S","U","H","B","A","T">>),
      Str(<<"s","u","h","b","a","t">>),
      Str(<<"S","A","V","O"," ","L">>),
      Str(<<"S","A","V","O">>),
      Str(<<"L","O","V","A","S">>),
      Str(<<"H","a","?">>),
      Str(<<" ","\n">>),
      Str(<<>>) }

InitClassification ==
    /\ pc = "start"
    /\ message \in Messages
    /\ \E h \in Histories : history = IF has_history(h) THEN h ELSE None
    /\ is_question = FALSE
    /\ keyword_result = Unset
    /\ keyword_results = <<>>
    /\ embedding_results = <<>>
    /\ sorted_results = <<>>
    /\ answer = Unset
    /\ result = Unset
    /\ calls = <<>>
    /\ \E text \in ClassificationTexts :
        fixed = [Unfixed EXCEPT
                   !["classify_message"] = FixedTo(text),
                   !["extract_search_keywords"] = FixedTo(Str(<< Json(Dict(FullExtraction)) >>))]
    /\ aliased = FALSE
    /\ Idle

SpecClassification == InitClassification /\ [][NextRequest]_vars

(***************************************************************************)
(* One chat() call whose composing calls and storage searches are decided  *)
(* beforehand: each of them either fails or gives one fixed output.        *)
(***************************************************************************)
InitFailures ==
    /\ pc = "start"
    /\ message \in Messages
    /\ history \in Histories
    /\ is_question = FALSE
    /\ keyword_result = Unset
    /\ keyword_results = <<>>
    /\ embedding_results = <<>>
    /\ sorted_results = <<>>
    /\ answer = Unset
    /\ result = Unset
    /\ calls = <<>>
    /\ \E conversational \in ConversationalResponses,
          fallback \in FallbackResponses,
          grounded \in GroundedResponsesRetrieval \cup {Err},
          keyword_db \in KeywordDbSmall,
          vector_db \in VectorDbSmall :
        fixed = [Unfixed EXCEPT
                   !["generate_conversational_response"] = FixedTo(conversational),
                   !["generate_fallback_answer"] = FixedTo(fallback),
                   !["generate_answer"] = FixedTo(grounded),
                   !["search_by_keywords"] = FixedTo(keyword_db),
                   !["search_similar"] = FixedTo(vector_db)]
    /\ aliased = FALSE
    /\ Idle

NextFailures ==
    \/ Classify(ClassifyResponses)
    \/ ConversationalReply(ConversationalResponses)
    \/ FollowUpReply(FallbackResponses)
    \/ ExtractKeywords(ExtractionResponses)
    \/ KeywordSearch(KeywordDbSmall)
    \/ QueryEmbedding
    \/ VectorSearch(VectorDbSmall)
    \/ GroundedAnswer(GroundedResponsesRetrieval)
    \/ InsufficientFallback(FallbackResponses)
    \/ NoSourcesFallback(FallbackResponses)

SpecFailures == InitFailures /\ [][NextFailures]_vars

(***************************************************************************)
(* The retrieval over a table in which title or answer of a row may be     *)
(* NULL: chat() from line 94 on.                                           *)
(***************************************************************************)
MaxKwNullable == 4

\* row i with its title, its answer or both NULL
NullableRow(i, title_null, answer_null) ==
    [id     |-> i,
     title  |-> IF title_null THEN SqlNull ELSE Row(i).title,
     answer |-> IF answer_null THEN SqlNull ELSE Row(i).answer]

\* search.py:130-138: every row has the selected columns, any of them NULL
KeywordRowsNullable ==
    UNION { { [i \in 1..n |->
                [k \in {"id", "title", "answer", "match_score"} |->
                    IF k = "match_score" THEN Max(MatchScores)
                    ELSE NullableRow(i, t[i], a[i])[k]]] :
              t \in [1..n -> BOOLEAN], a \in [1..n -> BOOLEAN] } :
            n \in 0..MaxKwNullable }

\* retriever.py:29-50: a row the keyword search may have given too, or a new one
VectorRowsNullable ==
    UNION { { [i \in 1..n |->
                [k \in {"id", "title", "answer", "relevance"} |->
                    IF k = "relevance" THEN RELEVANCE_FLOOR
                    ELSE NullableRow(id, t, a)[k]]] :
              id \in {1, MaxKwNullable + 1}, t \in BOOLEAN, a \in BOOLEAN } :
            n \in 0..MaxVecSmall }

KeywordDbNullable == Db(KeywordRowsNullable)

VectorDbNullable == Db(VectorRowsNullable)

InitCandidates ==
    /\ pc = "extracted"
    /\ message \in Messages
    /\ history = None
    /\ is_question = TRUE
    /\ keyword_result = FullExtraction
    /\ keyword_results = <<>>
    /\ embedding_results = <<>>
    /\ sorted_results = <<>>
    /\ answer = Unset
    /\ result = Unset
    /\ calls = << Call("classify_message", Return(TRUE)),
                  Call("extract_search_keywords", Return(FullExtraction)) >>
    /\ fixed = Unfixed
    /\ aliased = FALSE
    /\ Idle

NextCandidates ==
    \/ KeywordSearch(KeywordDbNullable)
    \/ QueryEmbedding
    \/ VectorSearch(VectorDbNullable)
    \/ GroundedAnswer(GroundedResponsesRetrieval)
    \/ InsufficientFallback(FallbackResponsesRetrieval)
    \/ NoSourcesFallback(FallbackResponsesRetrieval)

SpecCandidates == InitCandidates /\ [][NextCandidates]_vars

(***************************************************************************)
(* Two chat() calls on one ChatService with the same message, no history   *)
(* and collaborators that give one fixed output each.  A collaborator may  *)
(* build its output anew for every call, or hand out the same list and     *)
(* dicts again (aliased), which chat() has changed at lines 127-128.       *)
(***************************************************************************)
MaxKwTwice == 3

ClassifyResponsesTwice == { Str(<<"S","A","V","O","L">>), Str(<<"S","U","H","B","A","T">>) }

\* the objects whose two keyword lists are lists
ExtractionResponsesTwice ==
    { Str(<< Json(Dict(o)) >>) :
        o \in { x \in ExtractionObjects :
                  /\ DOMAIN x = DOMAIN FullExtraction
                  /\ x.primary_keywords.type = "list" } }

KeywordDbTwice ==
    Db({ r \in KeywordRows :
           /\ Len(r) <= MaxKwTwice
           /\ \A i \in 1..Len(r) : r[i].match_score = Max(MatchScores) })

VectorDbTwice == Db(VectorRows(MaxVecRequest, MaxIdRequest, {Max(Relevances)}))

InitTwice ==
    /\ pc = "start"
    /\ message \in Messages
    /\ history \in { h \in Histories : ~has_history(h) }
    /\ is_question = FALSE
    /\ keyword_result = Unset
    /\ keyword_results = <<>>
    /\ embedding_results = <<>>
    /\ sorted_results = <<>>
    /\ answer = Unset
    /\ result = Unset
    /\ calls = <<>>
    /\ \E classification \in ClassifyResponsesTwice,
          conversational \in { r \in ConversationalResponses : r.type = "str" },
          fallback \in FallbackResponsesRetrieval,
          grounded \in GroundedResponsesRetrieval,
          extraction \in ExtractionResponsesTwice,
          keyword_db \in KeywordDbTwice,
          vector_db \in VectorDbTwice :
        fixed = [fn \in Collaborators |->
                   FixedTo(CASE fn = "classify_message" -> classification
                             [] fn = "generate_conversational_response" -> conversational
                             [] fn = "generate_fallback_answer" -> fallback
                             [] fn = "generate_answer" -> grounded
                             [] fn = "extract_search_keywords" -> extraction
                             [] fn = "search_by_keywords" -> keyword_db
                             [] fn = "generate_query_embedding" -> TRUE
                             [] fn = "search_similar" -> vector_db)]
    /\ aliased \in BOOLEAN
    /\ Idle

\* chat.py:47: the next call starts with fresh locals; what the service and
\* its collaborators hold stays
CallAgain ==
    /\ pc = "done"
    /\ returned = <<>>
    /\ returned' = Append(returned, result)
    /\ pc' = "start"
    /\ is_question' = FALSE
    /\ keyword_result' = Unset
    /\ keyword_results' = <<>>
    /\ embedding_results' = <<>>
    /\ sorted_results' = <<>>
    /\ answer' = Unset
    /\ result' = Unset
    /\ calls' = <<>>
    /\ UNCHANGED <<message, history, stubs, saved, http_response, corpus,
                   search_call, search_rows, backfill, crawl>>

NextTwice ==
    \/ Classify(ClassifyResponsesTwice)
    \/ ConversationalReply(ConversationalResponses)
    \/ ExtractKeywords(ExtractionResponsesTwice)
    \/ KeywordSearch(KeywordDbTwice)
    \/ QueryEmbedding
    \/ VectorSearch(VectorDbTwice)
    \/ GroundedAnswer(GroundedResponsesRetrieval)
    \/ InsufficientFallback(FallbackResponsesRetrieval)
    \/ NoSourcesFallback(FallbackResponsesRetrieval)
    \/ CallAgain

SpecTwice == InitTwice /\ [][NextTwice]_vars

(***************************************************************************)
(* search.py:78-150, the statement search_by_keywords runs on the          *)
(* questions table.  A column is Str(t) or None (NULL); view_count is a    *)
(* number, NullCount when NULL.  The statement orders by match_score and   *)
(* view_count only, so rows that tie on both come in any order, and any of *)
(* them may be the ones LIMIT keeps.                                       *)
(***************************************************************************)
\* search.py:106, in thousandths
TITLE_POINTS == 2000

\* search.py:109, in thousandths
ANSWER_POINTS == 1000

\* search.py:79
DEFAULT_LIMIT == 10

\* a NULL view_count; the counts stored are not negative
NullCount == -1

\* col ILIKE '%kw%': NULL on a NULL column, which CASE WHEN and WHERE take
\* for no match
Ilike(col, kw) == col.type = "str" /\ Contains(Lower(col.val), Lower(kw))

\* a score that counts a title hit like an answer hit
MatchScoreUnweighted(row, keywords) ==
    ANSWER_POINTS *
        (Cardinality({i \in 1..Len(keywords) : Ilike(row.question_title, keywords[i])})
         + Cardinality({i \in 1..Len(keywords) : Ilike(row.answer, keywords[i])}))

\* search.py:103-111
RECURSIVE MatchScore(_, _)
MatchScore(row, keywords) ==
    IF keywords = <<>> THEN 0
    ELSE (IF Ilike(row.question_title, Head(keywords)) THEN TITLE_POINTS ELSE 0)
         + (IF Ilike(row.answer, Head(keywords)) THEN ANSWER_POINTS ELSE 0)
         + MatchScore(row, Tail(keywords))

\* search.py:114-118 and 140-141
Selected(row, keywords) ==
    /\ row.is_fully_scraped
    /\ \E i \in 1..Len(keywords) :
          Ilike(row.question_title, keywords[i]) \/ Ilike(row.answer, keywords[i])

\* search.py:130-138: the columns of a result row
ResultRow(row, keywords) ==
    [id          |-> row.id,
     title       |-> row.question_title,
     answer      |-> row.answer,
     view_count  |-> row.view_count,
     match_score |-> MatchScore(row, keywords)]

\* search.py:142: x has to come before y
SortsBefore(x, y) ==
    \/ x.match_score > y.match_score
    \/ /\ x.match_score = y.match_score
       /\ x.view_count # NullCount
       /\ (y.view_count = NullCount \/ x.view_count > y.view_count)

\* search.py:129-148: every list of rows the statement may give
keyword_query(table, keywords, limit) ==
    LET rows == { ResultRow(table[i], keywords) :
                    i \in {j \in 1..Len(table) : Selected(table[j], keywords)} }
        n == Cardinality(rows)
        orders == { p \in [1..n -> rows] :
                      /\ \A i, j \in 1..n : p[i] = p[j] => i = j
                      /\ \A i, j \in 1..n : i < j => ~SortsBefore(p[j], p[i]) }
    IN  { SubSeq(p, 1, IF limit < n THEN limit ELSE n) : p \in orders }

MaxTable == 2

OtherKeyword == <<"r","o","z","a">>

QuestionTitles == { Str(<<"S","a","l","o","t">>), Str(<<"R","o","z","a">>) }

QuestionAnswers == { Str(<<"s","a","l","o","t"," ","f","a","r","z">>), None }

ViewCounts == { NullCount, 7 }

\* the tables of up to MaxTable rows, row i having id i
Tables ==
    UNION { { [i \in 1..n |->
                [id               |-> i,
                 question_title   |-> t[i],
                 answer           |-> a[i],
                 view_count       |-> v[i],
                 is_fully_scraped |-> f[i]]] :
              t \in [1..n -> QuestionTitles], a \in [1..n -> QuestionAnswers],
              v \in [1..n -> ViewCounts], f \in [1..n -> BOOLEAN] } :
            n \in 0..MaxTable }

KeywordLists == { <<>>, <<Keyword>>, <<Keyword, OtherKeyword>> }

Limits == { 1, DEFAULT_LIMIT }

InitSearch ==
    /\ pc = "search"
    /\ message \in Messages
    /\ history = None
    /\ is_question = FALSE
    /\ keyword_result = Unset
    /\ keyword_results = <<>>
    /\ embedding_results = <<>>
    /\ sorted_results = <<>>
    /\ answer = Unset
    /\ result = Unset
    /\ calls = <<>>
    /\ fixed = Unfixed
    /\ aliased = FALSE
    /\ returned = <<>>
    /\ saved = <<>>
    /\ http_response = Unset
    /\ corpus \in Tables
    /\ search_call = Unset
    /\ search_rows = <<>>
    /\ BatchJobsIdle

\* search.py:78-150, one call
SearchByKeywords ==
    /\ pc = "search"
    /\ \E keywords \in KeywordLists, limit \in Limits :
        \E db \in Db(keyword_query(corpus, keywords, limit)) :
            LET r == search_by_keywords(keywords, db)
            IN  /\ search_call' = [keywords |-> keywords, limit |-> limit]
                /\ calls' = Append(calls, Call("search_by_keywords", r))
                /\ IF r.raised
                   THEN pc' = "raised" /\ UNCHANGED search_rows
                   ELSE pc' = "searched" /\ search_rows' = r.value
    /\ UNCHANGED <<returned, saved, http_response, corpus, backfill, crawl, stubs,
                   message, history, is_question, keyword_result, keyword_results,
                   embedding_results, sorted_results, answer, result>>

NextSearch == SearchByKeywords

SpecSearch == InitSearch /\ [][NextSearch]_vars

(***************************************************************************)
(* The parallel embedding backfill (embeddings.py:93-221): the questions   *)
(* without an embedding are fetched once, dealt to one worker per API key, *)
(* and the worker threads run interleaved, each over its own batch.        *)
(***************************************************************************)
\* the variables of the web application, which a batch job never touches
web == <<message, history, is_question, keyword_result, keyword_results,
         embedding_results, sorted_results, answer, result, calls, stubs,
         returned, saved, http_response, corpus, search_call, search_rows>>

\* no request is being served
WebIdle ==
    /\ message = None
    /\ history = None
    /\ is_question = FALSE
    /\ keyword_result = Unset
    /\ keyword_results = <<>>
    /\ embedding_results = <<>>
    /\ sorted_results = <<>>
    /\ answer = Unset
    /\ result = Unset
    /\ calls = <<>>
    /\ fixed = Unfixed
    /\ aliased = FALSE
    /\ returned = <<>>
    /\ saved = <<>>
    /\ http_response = Unset
    /\ corpus = <<>>
    /\ search_call = Unset
    /\ search_rows = <<>>

\* the crawl is not running
CrawlIdle ==
    /\ current_url = 0
    /\ consecutive_failures = 0
    /\ pages_scraped = 0
    /\ visited_urls = {}
    /\ max_pages = 0
    /\ question_urls = {}
    /\ requests = 0
    /\ page_outcome = "none"

\* the GEMINI_API_KEY.. variables read at embeddings.py:16-22 (five in the code)
MaxEnv == 3
\* the ids of the questions table
MaxQuestions == 3

\* the key the i-th variable names when it is set: the deployment gives every
\* variable a key of its own
KeyOf(i) == Str(<<"k", i>>)

\* one environment: every variable unset, empty or set to its key
Environments == { env \in [1..MaxEnv -> {None, Str(<<>>)} \cup {KeyOf(i) : i \in 1..MaxEnv}] :
                    \A i \in 1..MaxEnv : env[i] \in {None, Str(<<>>), KeyOf(i)} }

\* embeddings.py:23, [k for k in API_KEYS if k]
RECURSIVE FilterKeys(_)
FilterKeys(env) ==
    IF env = <<>> THEN <<>>
    ELSE IF Truthy(Head(env)) THEN <<Head(env)>> \o FilterKeys(Tail(env))
         ELSE FilterKeys(Tail(env))

\* the ids in increasing order
RECURSIVE OrderById(_)
OrderById(ids) ==
    IF ids = {} THEN <<>> ELSE <<Min(ids)>> \o OrderById(ids \ {Min(ids)})

\* the first n elements, LIMIT n
Take(s, n) == SubSeq(s, 1, Min({n, Len(s)}))

\* embeddings.py:112-126, the SELECT: the unembedded ids, optionally from
\* start_from_id on, by id, optionally the first limit of them
unembedded_query(unembedded, start_from_id, limit) ==
    LET from == IF start_from_id # 0 THEN {q \in unembedded : q >= start_from_id}
                ELSE unembedded
        rows == OrderById(from)
    IN  IF limit # 0 THEN Take(rows, limit) ELSE rows

\* a batch that hands every question to every worker (no partition)
QuestionBatchesBroadcast(qs, num_workers) == [w \in 1..num_workers |-> qs]

\* embeddings.py:152-154, question_batches[i % num_workers].append(q): worker
\* w (1-based here, w - 1 in the code) gets the questions at the 0-based
\* positions i with i % num_workers = w - 1, in order
RECURSIVE RoundRobin(_, _, _, _)
RoundRobin(qs, i, num_workers, w) ==
    IF i > Len(qs) THEN <<>>
    ELSE IF (i - 1) % num_workers = w - 1
         THEN <<qs[i]>> \o RoundRobin(qs, i + 1, num_workers, w)
         ELSE RoundRobin(qs, i + 1, num_workers, w)

QuestionBatches(qs, num_workers) ==
    [w \in 1..num_workers |-> RoundRobin(qs, 1, num_workers, w)]

\* embeddings.py:108-109, the connection of the main Database()
MainConnection == 1

\* embeddings.py:149 with db.py:14-37: every Database() starts without a
\* connection, so each connect() opens one more
OpenConnections(num_workers, opened) == [w \in 1..num_workers |-> opened + w]

\* embeddings.py:33-40
EmbeddingWorker(worker_id, api_key) ==
    [worker_id |-> worker_id, api_key |-> api_key, processed |-> 0, errors |-> 0]

\* the state of one worker thread: the batch position it is at, and whether
\* it holds an embedding that is not written yet
AtQuestion(n) == [at |-> n, embedded |-> FALSE]

InitBackfill ==
    /\ pc = "start"
    /\ WebIdle
    /\ CrawlIdle
    /\ \E env \in Environments : API_KEYS = FilterKeys(env)
    /\ \E unembedded \in SUBSET (1..MaxQuestions), start_from_id \in {0, 2},
          limit \in {0, 2} :
            questions = unembedded_query(unembedded, start_from_id, limit)
    /\ workers = <<>>
    /\ worker_connections = <<>>
    /\ question_batches = <<>>
    /\ progress = <<>>
    /\ stop_flag = FALSE
    /\ work = {}

\* embeddings.py:103-106 and 128-132, nothing to do
NothingToEmbed ==
    /\ pc = "start"
    /\ Len(API_KEYS) = 0 \/ Len(questions) = 0
    /\ pc' = "done"
    /\ UNCHANGED <<web, crawl, questions, API_KEYS, workers, worker_connections,
                   question_batches, progress, stop_flag, work>>

\* embeddings.py:145-157 and 186-190, the workers are set up and submitted
StartWorkers ==
    /\ pc = "start"
    /\ Len(API_KEYS) # 0 /\ Len(questions) # 0
    /\ LET num_workers == Len(API_KEYS)
       IN  /\ workers' = [w \in 1..num_workers |-> EmbeddingWorker(w - 1, API_KEYS[w])]
           /\ worker_connections' = OpenConnections(num_workers, MainConnection)
           /\ question_batches' = QuestionBatches(questions, num_workers)
           /\ progress' = [w \in 1..num_workers |-> AtQuestion(1)]
    /\ pc' = "running"
    /\ UNCHANGED <<web, crawl, questions, API_KEYS, stop_flag, work>>

\* the loop of worker_task has questions left (embeddings.py:160)
HasNext(w) == progress[w].at <= Len(question_batches[w])

Job(w, op) ==
    [worker |-> w, id |-> question_batches[w][progress[w].at],
     api_key |-> workers[w].api_key, conn |-> worker_connections[w], op |-> op]

\* embeddings.py:160-163 and 42-56: the flag is not set, the worker asks for
\* the embedding of its next question with its key; a failure is counted
\* (embeddings.py:74-90) and the loop goes on
Embed(w) ==
    /\ pc = "running"
    /\ HasNext(w) /\ ~progress[w].embedded /\ ~stop_flag
    /\ \E ok \in BOOLEAN :
        IF ok
        THEN /\ work' = work \cup {Job(w, "embed")}
             /\ progress' = [progress EXCEPT ![w].embedded = TRUE]
             /\ UNCHANGED workers
        ELSE /\ workers' = [workers EXCEPT ![w].errors = @ + 1]
             /\ progress' = [progress EXCEPT ![w].at = @ + 1]
             /\ UNCHANGED work
    /\ UNCHANGED <<web, crawl, pc, questions, API_KEYS, worker_connections,
                   question_batches, stop_flag>>

\* embeddings.py:58-69: the UPDATE and commit on the worker's connection; a
\* failure is counted and rolled back (embeddings.py:74-90)
Store(w) ==
    /\ pc = "running"
    /\ HasNext(w) /\ progress[w].embedded
    /\ \E ok \in BOOLEAN :
        IF ok
        THEN /\ work' = work \cup {Job(w, "update")}
             /\ workers' = [workers EXCEPT ![w].processed = @ + 1]
        ELSE /\ workers' = [workers EXCEPT ![w].errors = @ + 1]
             /\ UNCHANGED work
    /\ progress' = [progress EXCEPT ![w] = AtQuestion(@.at + 1)]
    /\ UNCHANGED <<web, crawl, pc, questions, API_KEYS, worker_connections,
                   question_batches, stop_flag>>

\* embeddings.py:161-162, the worker sees the flag and leaves its loop
Break(w) ==
    /\ pc = "running"
    /\ HasNext(w) /\ ~progress[w].embedded /\ stop_flag
    /\ progress' = [progress EXCEPT ![w] = AtQuestion(Len(question_batches[w]) + 1)]
    /\ UNCHANGED <<web, crawl, pc, questions, API_KEYS, workers, worker_connections,
                   question_batches, stop_flag, work>>

\* embeddings.py:195-197, KeyboardInterrupt while the workers run
Interrupt ==
    /\ pc = "running"
    /\ ~stop_flag
    /\ stop_flag' = TRUE
    /\ UNCHANGED <<web, crawl, pc, questions, API_KEYS, workers, worker_connections,
                   question_batches, progress, work>>

\* embeddings.py:186-203, every worker_task has returned
WorkersDone ==
    /\ pc = "running"
    /\ \A w \in 1..Len(workers) : ~HasNext(w)
    /\ stop_flag' = TRUE
    /\ pc' = "done"
    /\ UNCHANGED <<web, crawl, questions, API_KEYS, workers, worker_connections,
                   question_batches, progress, work>>

NextBackfill ==
    \/ NothingToEmbed
    \/ StartWorkers
    \/ \E w \in 1..Len(workers) : Embed(w)
    \/ \E w \in 1..Len(workers) : Store(w)
    \/ \E w \in 1..Len(workers) : Break(w)
    \/ Interrupt
    \/ WorkersDone

SpecBackfill == InitBackfill /\ [][NextBackfill]_vars

(***************************************************************************)
(* The crawl (scraper.py:250-423): one scrape() call, a loop iteration per *)
(* step.  A question page /s/N is the number N.  The pages up to MaxLive   *)
(* may answer, with or without a question title and with any next link;    *)
(* every page beyond them is missing, which is how the chain of questions  *)
(* ends.                                                                   *)
(***************************************************************************)
\* scraper.py:28
MAX_CONSECUTIVE_FAILURES == 50

\* the question pages that may answer
MaxLive == 2

\* no URL (None)
NoUrl == 0

\* a URL without /s/<number> in it
OtherUrl == -1

\* the stop test written >
TooManyFailuresStrict(n) == n > MAX_CONSECUTIVE_FAILURES

\* scraper.py:299
TooManyFailures(n) == n >= MAX_CONSECUTIVE_FAILURES

\* scraper.py:306
MaxPagesReached == max_pages > 0 /\ pages_scraped >= max_pages

\* scraper.py:55-72
increment_url(url) == IF url = OtherUrl THEN NoUrl ELSE url + 1

\* the pages a request may get an answer from
Live == (1..MaxLive) \cup {OtherUrl}

\* data["next_url"] of a page: none, the next question, the first question
\* again, a page that is no question
NextUrls(url) == {NoUrl, 1, OtherUrl} \cup (IF url = OtherUrl THEN {} ELSE {url + 1})

InitCrawl ==
    /\ pc = "crawling"
    /\ WebIdle
    /\ questions = <<>>
    /\ API_KEYS = <<>>
    /\ workers = <<>>
    /\ worker_connections = <<>>
    /\ question_batches = <<>>
    /\ progress = <<>>
    /\ stop_flag = FALSE
    /\ work = {}
    \* scraper.py:259-294: a new session, or a resumed one with its page count
    /\ current_url \in {1, 2}
    /\ pages_scraped \in {0, 1}
    /\ consecutive_failures = 0
    /\ visited_urls = {}
    /\ max_pages \in {0, 2}
    /\ question_urls \in SUBSET (1..MaxLive)
    /\ requests = 0
    /\ page_outcome = "none"

\* scraper.py:299-303
StopOnFailures ==
    /\ pc = "crawling"
    /\ TooManyFailures(consecutive_failures)
    /\ pc' = "crawled"
    /\ page_outcome' = "too_many_failures"
    /\ UNCHANGED <<web, backfill, current_url, consecutive_failures, pages_scraped,
                   visited_urls, max_pages, question_urls, requests>>

\* scraper.py:306-308
StopOnMaxPages ==
    /\ pc = "crawling"
    /\ ~TooManyFailures(consecutive_failures)
    /\ MaxPagesReached
    /\ pc' = "crawled"
    /\ page_outcome' = "max_pages"
    /\ UNCHANGED <<web, backfill, current_url, consecutive_failures, pages_scraped,
                   visited_urls, max_pages, question_urls, requests>>

\* scraper.py:314-316
StopOnVisited ==
    /\ pc = "crawling"
    /\ ~TooManyFailures(consecutive_failures)
    /\ ~MaxPagesReached
    /\ current_url \in visited_urls
    /\ pc' = "crawled"
    /\ page_outcome' = "visited"
    /\ UNCHANGED <<web, backfill, current_url, consecutive_failures, pages_scraped,
                   visited_urls, max_pages, question_urls, requests>>

\* scraper.py:297-320: the loop gets as far as _make_request
Fetches ==
    /\ pc = "crawling"
    /\ ~TooManyFailures(consecutive_failures)
    /\ ~MaxPagesReached
    /\ current_url \notin visited_urls

\* scraper.py:383-395: on to the next link, or to the incremented URL, or out
MoveTo(next_relative_url) ==
    LET next == IF next_relative_url = NoUrl THEN increment_url(current_url)
                ELSE next_relative_url
    IN  IF next = NoUrl
        THEN pc' = "crawled" /\ UNCHANGED current_url
        ELSE pc' = "crawling" /\ current_url' = next

\* scraper.py:320-334: no content after the retries; any page may fail, a
\* missing page always does
FetchFails ==
    /\ Fetches
    /\ requests' = requests + 1
    /\ consecutive_failures' = consecutive_failures + 1
    /\ page_outcome' = "fetch_failed"
    /\ MoveTo(NoUrl)
    /\ UNCHANGED <<web, backfill, pages_scraped, visited_urls, max_pages, question_urls>>

\* scraper.py:341-350 and 374-375: the page is in the questions table
PageExists ==
    /\ Fetches
    /\ current_url \in Live
    /\ current_url \in question_urls
    /\ requests' = requests + 1
    /\ visited_urls' = visited_urls \cup {current_url}
    /\ consecutive_failures' = 0
    /\ page_outcome' = "exists"
    /\ \E next_relative_url \in NextUrls(current_url) : MoveTo(next_relative_url)
    /\ UNCHANGED <<web, backfill, pages_scraped, max_pages, question_urls>>

\* scraper.py:353-375 and 190-248: the page has a title and is saved
PageSaved ==
    /\ Fetches
    /\ current_url \in Live
    /\ current_url \notin question_urls
    /\ requests' = requests + 1
    /\ question_urls' = question_urls \cup {current_url}
    /\ visited_urls' = visited_urls \cup {current_url}
    /\ pages_scraped' = pages_scraped + 1
    /\ consecutive_failures' = 0
    /\ page_outcome' = "saved"
    /\ \E next_relative_url \in NextUrls(current_url) : MoveTo(next_relative_url)
    /\ UNCHANGED <<web, backfill, max_pages>>

\* scraper.py:353-356, 376-380 and 211-217: the page has no question title
PageUntitled ==
    /\ Fetches
    /\ current_url \in Live
    /\ current_url \notin question_urls
    /\ requests' = requests + 1
    /\ visited_urls' = visited_urls \cup {current_url}
    /\ consecutive_failures' = consecutive_failures + 1
    /\ page_outcome' = "untitled"
    /\ \E next_relative_url \in NextUrls(current_url) : MoveTo(next_relative_url)
    /\ UNCHANGED <<web, backfill, pages_scraped, max_pages, question_urls>>

\* scraper.py:407-419: the parser or the database raises, the loop is left
\* through the except clause
CrawlRaises ==
    /\ Fetches
    /\ current_url \in Live
    /\ requests' = requests + 1
    /\ pc' = "crawl_failed"
    /\ page_outcome' = "raised"
    /\ UNCHANGED <<web, backfill, current_url, consecutive_failures, pages_scraped,
                   visited_urls, max_pages, question_urls>>

NextCrawl ==
    \/ StopOnFailures
    \/ StopOnMaxPages
    \/ StopOnVisited
    \/ FetchFails
    \/ PageExists
    \/ PageSaved
    \/ PageUntitled
    \/ CrawlRaises

SpecCrawl == InitCrawl /\ [][NextCrawl]_vars

(***************************************************************************)
(* What the call log says.                                                 *)
(***************************************************************************)
Returned(fn) == {i \in 1..Len(calls) : calls[i].fn = fn /\ ~calls[i].ret.raised}

\* classify_message returned b
ClassifiedAs(b) ==
    \E i \in Returned("classify_message") : calls[i].ret.value = b

\* the rows the keyword search gave; none when it was skipped
KeywordOutput ==
    IF Returned("search_by_keywords") = {}
    THEN <<>>
    ELSE calls[CHOOSE i \in Returned("search_by_keywords") : TRUE].ret.value

\* the last value a collaborator returned
LastReturn == calls[Len(calls)].ret.value

IdsOf(l) == {l[i].id : i \in 1..Len(l)}

NoRetrievalCall ==
    /\ ~Called("extract_search_keywords")
    /\ ~Called("search_by_keywords")
    /\ ~Called("generate_query_embedding")
    /\ ~Called("search_similar")

\* chat() has come past lines 94-129
RetrievalOver == pc \in {"merged", "insufficient", "done"} /\ ClassifiedAs(TRUE)

(***************************************************************************)
(* C1.  In every result chat() returns, sources is non-empty if and only   *)
(* if source_type is "database".                                           *)
(***************************************************************************)
C1_SourcesIffDatabase ==
    pc = "done" => (result.sources # <<>> <=> result.source_type = "database")

C1_Witness ==
    /\ pc = "done"
    /\ result.source_type = "database"
    /\ Len(result.sources) >= 2

(***************************************************************************)
(* C2.  In every result chat() returns, the disclaimer key is present if   *)
(* and only if source_type is "ai_knowledge".                              *)
(***************************************************************************)
C2_DisclaimerIffAiKnowledge ==
    pc = "done" =>
        ("disclaimer" \in DOMAIN result <=> result.source_type = "ai_knowledge")

C2_Witness ==
    /\ pc = "done"
    /\ result.source_type = "ai_knowledge"
    /\ "disclaimer" \in DOMAIN result
    /\ Called("generate_answer")

(***************************************************************************)
(* C3.  A message classified conversational with a non-empty history is    *)
(* answered without retrieval, as ai_knowledge, with empty sources and     *)
(* with no disclaimer.                                                     *)
(***************************************************************************)
C3_FollowUpWithoutDisclaimer ==
    (pc = "done" /\ ClassifiedAs(FALSE) /\ has_history(history)) =>
        /\ NoRetrievalCall
        /\ result.source_type = "ai_knowledge"
        /\ result.sources = <<>>
        /\ "disclaimer" \notin DOMAIN result

(***************************************************************************)
(* C4.  A message classified conversational with an empty or absent        *)
(* history never reaches keyword search, query embedding or vector search, *)
(* and its result is conversational, with no source and no disclaimer.     *)
(***************************************************************************)
C4_ConversationalNoRetrieval ==
    (ClassifiedAs(FALSE) /\ history \in {None, List(<<>>)}) =>
        /\ NoRetrievalCall
        /\ pc = "done" =>
            /\ result.source_type = "conversational"
            /\ result.sources = <<>>
            /\ "disclaimer" \notin DOMAIN result

C4_Witness ==
    /\ pc = "done"
    /\ ClassifiedAs(FALSE)
    /\ history = List(<<>>)
    /\ result.source_type = "conversational"

(***************************************************************************)
(* C5.  On the grounded path, a grounded text that contains one of the     *)
(* four not-found phrases, whatever the case of its letters, is discarded: *)
(* the result is ai_knowledge with the disclaimer and no source, its       *)
(* answer the fallback's.  A grounded text that contains none is returned  *)
(* as the answer of a database result.                                     *)
(***************************************************************************)
ContainsIgnoringCase(t, p) ==
    \E i \in 1..(Len(t) - Len(p) + 1) :
        \A j \in 1..Len(p) : LowerChar(t[i + j - 1]) = LowerChar(p[j])

HasNotFoundPhrase(t) ==
    \/ ContainsIgnoringCase(t, <<"t","o","p","i","l","m","a","d","i">>)
    \/ ContainsIgnoringCase(t, <<"m","a","v","j","u","d"," ","e","m","a","s">>)
    \/ ContainsIgnoringCase(t, <<"m","a","'","l","u","m","o","t"," ","y","o","'","q">>)
    \/ ContainsIgnoringCase(t, <<"j","a","v","o","b"," ","y","o","'","q">>)

C5_NotFoundFlipsToFallback ==
    (pc = "done" /\ Called("generate_answer")) =>
        IF HasNotFoundPhrase(answer.val)
        THEN /\ result.source_type = "ai_knowledge"
             /\ result.disclaimer = DISCLAIMER
             /\ result.sources = <<>>
             /\ calls[Len(calls)].fn = "generate_fallback_answer"
             /\ result.answer = LastReturn.answer
        ELSE /\ result.source_type = "database"
             /\ result.answer = answer

C5_Witness ==
    /\ pc = "done"
    /\ Called("generate_answer")
    /\ answer = Str(<<"M","a","v","j","u","d"," ","E","m","a","s">>)
    /\ result.source_type = "ai_knowledge"

(***************************************************************************)
(* C6.  A question whose merged candidate list is empty is answered by the *)
(* knowledge fallback: ai_knowledge, the fixed disclaimer, no source, and  *)
(* no grounded generation.                                                 *)
(***************************************************************************)
C6_NoSourcesFallback ==
    (pc = "done" /\ ClassifiedAs(TRUE) /\ keyword_results = <<>>) =>
        /\ result.source_type = "ai_knowledge"
        /\ result.disclaimer = DISCLAIMER
        /\ result.sources = <<>>
        /\ ~Called("generate_answer")
        /\ calls[Len(calls)].fn = "generate_fallback_answer"
        /\ result.answer = LastReturn.answer

C6_Witness ==
    /\ pc = "done"
    /\ ClassifiedAs(TRUE)
    /\ keyword_results = <<>>
    /\ embedding_results # <<>>

(***************************************************************************)
(* C7.  The ranked list handed to composition has at most 5 candidates and *)
(* is in non-increasing order of composite_score, the keyword score of a   *)
(* keyword-origin candidate and 3 times the similarity of a vector-origin  *)
(* one (the component a candidate was not created with counting 0).        *)
(***************************************************************************)
CompositeScore(c) ==
    IF "relevance" \in DOMAIN c THEN 3 * c.relevance ELSE c.match_score

C7_RankedByCompositeScore ==
    /\ Len(sorted_results) <= 5
    /\ \A i \in 1..(Len(sorted_results) - 1) :
        CompositeScore(sorted_results[i]) >= CompositeScore(sorted_results[i + 1])

(***************************************************************************)
(* C8.  An id that both searches gave is in the merged list exactly once,  *)
(* as the row of the keyword search, match_score included.                 *)
(***************************************************************************)
C8_KeywordOriginWins ==
    (RetrievalOver /\ Returned("search_similar") # {}) =>
        \A i \in 1..Len(KeywordOutput) :
            KeywordOutput[i].id \in IdsOf(embedding_results) =>
                /\ Cardinality({j \in 1..Len(keyword_results) :
                                  keyword_results[j].id = KeywordOutput[i].id}) = 1
                /\ keyword_results[i] = KeywordOutput[i]

C8_Witness ==
    /\ pc = "merged"
    /\ \E i \in 1..Len(embedding_results) :
        /\ embedding_results[i].id \in IdsOf(KeywordOutput)
        /\ embedding_results[i].relevance = 900
    /\ Len(keyword_results) > Len(KeywordOutput)

(***************************************************************************)
(* C9.  In the augmentation, a row of the vector search whose id the       *)
(* keyword search did not give is merged in if and only if its similarity  *)
(* is at least 0.55: 0.55 is in, 0.54 is out, and one keyword row with     *)
(* three new rows of similarity 0.9, 0.6 and 0.5 makes three candidates.   *)
(***************************************************************************)
C9_RelevanceFloor ==
    (RetrievalOver /\ Returned("search_similar") # {}) =>
        /\ \A i \in 1..Len(embedding_results) :
            embedding_results[i].id \notin IdsOf(KeywordOutput) =>
                (embedding_results[i].id \in IdsOf(keyword_results)
                    <=> embedding_results[i].relevance >= 550)
        /\ ( /\ Len(KeywordOutput) = 1
             /\ IdsOf(embedding_results) \cap IdsOf(KeywordOutput) = {}
             /\ [i \in 1..Len(embedding_results) |-> embedding_results[i].relevance]
                    = <<900, 600, 500>> )
           => Len(keyword_results) = 3

C9_Witness ==
    /\ pc = "merged"
    /\ Len(KeywordOutput) = 1
    /\ Len(embedding_results) = 3
    /\ IdsOf(embedding_results) \cap IdsOf(KeywordOutput) = {}
    /\ embedding_results[1].relevance = 550
    /\ embedding_results[2].relevance = 550
    /\ embedding_results[3].relevance = 540
    /\ Len(keyword_results) = 3

(***************************************************************************)
(* C10.  For a question, the query embedding and the vector search are     *)
(* called if and only if the keyword search gave fewer than 3 rows, a      *)
(* skipped keyword search giving none; with 3 rows or more neither is ever *)
(* called.                                                                 *)
(***************************************************************************)
C10_EmbeddingIffInsufficient ==
    /\ (Called("generate_query_embedding") \/ Called("search_similar")) =>
        Len(KeywordOutput) < 3
    /\ RetrievalOver =>
        /\ Len(KeywordOutput) < 3 <=> Called("generate_query_embedding")
        /\ Len(KeywordOutput) < 3 <=> Called("search_similar")

C10_Witness ==
    /\ pc = "done"
    /\ ClassifiedAs(TRUE)
    /\ ~Called("search_by_keywords")
    /\ Called("generate_query_embedding")
    /\ Called("search_similar")

(***************************************************************************)
(* C11.  In a database result the ids of sources are ids of the ranked     *)
(* candidates handed to generate_answer, in the same relative order.       *)
(***************************************************************************)
\* a is b with some elements left out
RECURSIVE IsSubsequence(_, _)
IsSubsequence(a, b) ==
    IF a = <<>> THEN TRUE
    ELSE IF b = <<>> THEN FALSE
    ELSE IF a[1] = b[1] THEN IsSubsequence(Tail(a), Tail(b))
    ELSE IsSubsequence(a, Tail(b))

IdSeq(l) == [i \in 1..Len(l) |-> l[i].id]

C11_SourcesFollowRanking ==
    (pc = "done" /\ result.source_type = "database") =>
        IsSubsequence(IdSeq(result.sources), IdSeq(sorted_results))

C11_Witness ==
    /\ pc = "done"
    /\ result.source_type = "database"
    /\ Len(result.sources) >= 3
    /\ \E i \in 1..Len(sorted_results) : "relevance" \in DOMAIN sorted_results[i]
    /\ \E i \in 1..Len(sorted_results) : "relevance" \notin DOMAIN sorted_results[i]

(***************************************************************************)
(* What the extraction call was given and gave.                            *)
(***************************************************************************)
\* the model answered the extraction prompt with a text
ExtractionGivenText ==
    /\ fixed["extract_search_keywords"].set
    /\ fixed["extract_search_keywords"].to.type = "str"

ExtractionCalls == {i \in 1..Len(calls) : calls[i].fn = "extract_search_keywords"}

\* the keywords chat() joins at lines 94-97; none when one of the two is no list
AllKeywords(kr) ==
    IF kr.primary_keywords.type = "list" /\ kr.related_keywords.type = "list"
    THEN kr.primary_keywords.val \o kr.related_keywords.val
    ELSE <<>>

\* the text holds no JSON document at all
NoJsonDocument(text) == \A i \in 1..Len(text) : text[i].t # "json"

(***************************************************************************)
(* C12.  For every text the model answers the extraction prompt with, the  *)
(* keyword list extraction produces (primary plus related) is non-empty.   *)
(***************************************************************************)
C12_KeywordsNeverEmpty ==
    ExtractionGivenText =>
        \A i \in ExtractionCalls :
            ~calls[i].ret.raised => AllKeywords(calls[i].ret.value) # <<>>

(***************************************************************************)
(* C13.  For every text the model answers the extraction prompt with,      *)
(* extract_search_keywords returns a value and does not raise.             *)
(***************************************************************************)
C13_ExtractionNeverRaises ==
    ExtractionGivenText => \A i \in ExtractionCalls : ~calls[i].ret.raised

(***************************************************************************)
(* C14.  When the text holds nothing that parses as structured data,       *)
(* extract_search_keywords returns exactly primary_keywords = [message],   *)
(* related_keywords = [] and rewritten_query = message.                    *)
(***************************************************************************)
C14_ParseFailureGivesFallback ==
    (ExtractionGivenText /\ NoJsonDocument(fixed["extract_search_keywords"].to.val)) =>
        \A i \in ExtractionCalls :
            /\ ~calls[i].ret.raised
            /\ calls[i].ret.value = FallbackKeywords(message)

(***************************************************************************)
(* C15.  If the generative call composing the answer fails (conversational *)
(* reply, grounded answer or knowledge fallback), chat() returns no result *)
(* and ends with the error.                                                *)
(***************************************************************************)
Composers ==
    { "generate_conversational_response", "generate_answer",
      "generate_fallback_answer" }

\* the API call of a composer that was called raises
ComposerFailed ==
    \E fn \in Composers : Called(fn) /\ fixed[fn].set /\ fixed[fn].to.type = "error"

C15_CompositionFailurePropagates ==
    ComposerFailed => (pc = "raised" /\ result = Unset)

C15_Witness ==
    /\ pc = "raised"
    /\ Called("generate_answer")
    /\ fixed["generate_answer"].to.type = "error"
    /\ Len(sorted_results) >= MIN_KEYWORD_RESULTS

(***************************************************************************)
(* C16.  If the keyword search, or the vector search when it runs, fails,  *)
(* chat() ends with the error and returns nothing, in particular no        *)
(* ai_knowledge result.                                                    *)
(***************************************************************************)
Backends == { "search_by_keywords", "search_similar" }

\* the statement of a search that was called raises
BackendFailed ==
    \E fn \in Backends : Called(fn) /\ fixed[fn].set /\ ~fixed[fn].to.ok

C16_BackendFailurePropagates ==
    BackendFailed => (pc = "raised" /\ result = Unset)

C16_Witness ==
    /\ pc = "raised"
    /\ Called("search_similar")
    /\ ~fixed["search_similar"].to.ok
    /\ fixed["search_by_keywords"].to.ok

(***************************************************************************)
(* C17.  A candidate whose title or answer is missing is left out of the   *)
(* grounding context and of sources, and chat() does not fail because of   *)
(* it: it fails only when a collaborator call fails.                       *)
(***************************************************************************)
Malformed(r) == r.title = SqlNull \/ r.answer = SqlNull

C17_MalformedCandidateSkipped ==
    /\ (pc = "done" /\ result.source_type = "database") =>
          /\ \A i \in 1..Len(sorted_results) : ~Malformed(sorted_results[i])
          /\ \A i \in 1..Len(result.sources) : result.sources[i].title # SqlNull
    /\ pc = "raised" => calls[Len(calls)].ret.raised

(***************************************************************************)
(* C18.  With collaborators fixed to one output each, the second chat()    *)
(* call with the same message and no history returns, and returns the same *)
(* dict as the first: same answer, source_type, disclaimer and sources.    *)
(***************************************************************************)
C18_RepeatedCallSameResult ==
    returned # <<>> =>
        /\ pc # "raised"
        /\ pc = "done" => result = returned[1]

\* the second call found the vector rows of the first in the list the
\* keyword search handed out again, and did not search by vector itself
C18_Witness ==
    /\ pc = "done"
    /\ returned # <<>>
    /\ aliased
    /\ result.source_type = "database"
    /\ ~Called("search_similar")
    /\ \E i \in 1..Len(sorted_results) : "relevance" \in DOMAIN sorted_results[i]

(***************************************************************************)
(* C19.  The rows search_by_keywords returns are ordered by match_score    *)
(* descending, then view_count descending, then id descending, and the     *)
(* rows LIMIT leaves out come after the last row returned in that order.   *)
(***************************************************************************)
\* x comes before y in the order of the three keys
BeforeWithId(x, y) ==
    \/ SortsBefore(x, y)
    \/ (~SortsBefore(y, x) /\ x.id > y.id)

C19_OrderedWithIdTiebreak ==
    pc = "searched" =>
        /\ \A i, j \in 1..Len(search_rows) :
              i < j => BeforeWithId(search_rows[i], search_rows[j])
        /\ \A k \in 1..Len(corpus) :
              (/\ Selected(corpus[k], search_call.keywords)
               /\ \A i \in 1..Len(search_rows) : search_rows[i].id # corpus[k].id)
              => \A i \in 1..Len(search_rows) :
                    BeforeWithId(search_rows[i],
                                 ResultRow(corpus[k], search_call.keywords))

(***************************************************************************)
(* C20.  For a question that went through keyword extraction, the keywords *)
(* the /api/chat handler records with the chat message are the keywords    *)
(* extracted during that chat() call.                                      *)
(***************************************************************************)
C20_RecordedKeywordsAreExtracted ==
    \A i \in 1..Len(saved) :
        (saved[i].table = "chat" /\ Returned("extract_search_keywords") # {})
            => saved[i].keywords = AllKeywords(keyword_result)

(***************************************************************************)
(* C21.  In the backfill every fetched question is in the batch of exactly *)
(* one worker (the batches are pairwise disjoint and together hold what    *)
(* was fetched), every worker has a connection and a key no other worker   *)
(* and not the main connection has, and whatever the interleaving no       *)
(* question is embedded or written by two workers.                         *)
(***************************************************************************)
\* no value twice
Distinct(s) == \A i, j \in 1..Len(s) : s[i] = s[j] => i = j

\* the workers whose batch holds question q
AssignedTo(q) ==
    {w \in 1..Len(question_batches) :
        \E j \in 1..Len(question_batches[w]) : question_batches[w][j] = q}

ClassificationGivenText ==
    /\ fixed["classify_message"].set
    /\ fixed["classify_message"].to.type = "str"

\* the token stands in t when case is ignored
HasQuestionToken(t) ==
    \E i \in 1..(Len(t) - Len(QUESTION_TOKEN) + 1) :
        \A j \in 1..Len(QUESTION_TOKEN) : UpperChar(t[i + j - 1]) = QUESTION_TOKEN[j]

C22_TrueIffQuestionToken ==
    ClassificationGivenText =>
        \A i \in 1..Len(calls) :
            calls[i].fn = "classify_message" =>
                /\ ~calls[i].ret.raised
                /\ calls[i].ret.value = HasQuestionToken(fixed["classify_message"].to.val)

\* a text that holds the token in mixed case only was classified a question
C22_Witness ==
    /\ ClassificationGivenText
    /\ ~Contains(fixed["classify_message"].to.val, QUESTION_TOKEN)
    /\ ClassifiedAs(TRUE)
    /\ pc = "classified"

(***************************************************************************)
(* C23.  Every candidate of the ranked list carries one of the two scores: *)
(* a keyword-origin candidate with match_score k has the ordering key k, a *)
(* vector-origin candidate with similarity s has no keyword score and has  *)
(* the ordering key 3 s.                                                   *)
(***************************************************************************)
C23_OrderingKeyOneComponent ==
    \A i \in 1..Len(sorted_results) :
        LET c == sorted_results[i]
        IN  IF "relevance" \in DOMAIN c
            THEN "match_score" \notin DOMAIN c /\ SortKey(c) = 3 * c.relevance
            ELSE "match_score" \in DOMAIN c /\ SortKey(c) = c.match_score

(***************************************************************************)
(* C24.  In a database result the relevance of each source is the          *)
(* hundredth nearest to the similarity of its candidate when the candidate *)
(* has one, and otherwise the hundredth nearest to its keyword score       *)
(* divided by 6.                                                           *)
(***************************************************************************)
\* r hundredths is a hundredth nearest to n / d thousandths
NearestHundredth(r, n, d) ==
    LET diff == 10 * d * r - n
    IN  2 * (IF diff < 0 THEN 0 - diff ELSE diff) <= 10 * d

C24_SourceRelevance ==
    (pc = "done" /\ result.source_type = "database") =>
        /\ Len(result.sources) = Len(sorted_results)
        /\ \A i \in 1..Len(sorted_results) :
              LET c == sorted_results[i]
                  r == result.sources[i].relevance
              IN  IF "relevance" \in DOMAIN c
                  THEN NearestHundredth(r, c.relevance, 1)
                  ELSE NearestHundredth(r, c.match_score, 6)

\* a database result with a source of either origin
C24_Witness ==
    /\ pc = "done"
    /\ result.source_type = "database"
    /\ \E i \in 1..Len(sorted_results) : "relevance" \in DOMAIN sorted_results[i]
    /\ \E i \in 1..Len(sorted_results) :
          /\ "relevance" \notin DOMAIN sorted_results[i]
          /\ result.sources[i].relevance = 17

(***************************************************************************)
(* C25.  The collaborator calls of one chat() call come in the order       *)
(* classification, keyword extraction, keyword search, query embedding and *)
(* vector search, composition: the first call is the classification, a     *)
(* call is made only after every earlier one has returned, no step is      *)
(* repeated or made after a later one except that composition may compose  *)
(* again, and a vector search follows a query embedding.                   *)
(***************************************************************************)
Stage(fn) ==
    CASE fn = "classify_message" -> 1
      [] fn = "extract_search_keywords" -> 2
      [] fn = "search_by_keywords" -> 3
      [] fn = "generate_query_embedding" -> 4
      [] fn = "search_similar" -> 5
      [] OTHER -> 6

C25_CallsInPipelineOrder ==
    /\ calls # <<>> => calls[1].fn = "classify_message"
    /\ \A i, j \in 1..Len(calls) :
          i < j =>
            /\ ~calls[i].ret.raised
            /\ Stage(calls[i].fn) <= Stage(calls[j].fn)
            /\ Stage(calls[i].fn) = Stage(calls[j].fn) => Stage(calls[i].fn) = 6
    /\ \A j \in 1..Len(calls) :
          calls[j].fn = "search_similar" =>
              j > 1 /\ calls[j - 1].fn = "generate_query_embedding"

\* all five steps before a composition that composed twice
C25_Witness ==
    /\ pc = "done"
    /\ Len(calls) = 7
    /\ calls[5].fn = "search_similar"
    /\ calls[6].fn = "generate_answer"
    /\ calls[7].fn = "generate_fallback_answer"

(***************************************************************************)
(* C26.  Every row search_by_keywords returns for N keywords has as        *)
(* match_score 2 for each keyword found in its title plus 1 for each       *)
(* keyword found in its answer, which is between 0 and 3 N, and at least   *)
(* one keyword is found in its title or its answer.                        *)
(***************************************************************************)
\* the keyword stands in the column, case ignored; never in a NULL column
FoundIn(col, kw) == col.type = "str" /\ ContainsIgnoringCase(col.val, kw)

C26_KeywordScoreIsSumOfHits ==
    pc = "searched" =>
        \A i \in 1..Len(search_rows) :
            LET kws == search_call.keywords
                row == search_rows[i]
                title_hits == {k \in 1..Len(kws) : FoundIn(row.title, kws[k])}
                answer_hits == {k \in 1..Len(kws) : FoundIn(row.answer, kws[k])}
            IN  /\ row.match_score
                     = 2000 * Cardinality(title_hits) + 1000 * Cardinality(answer_hits)
                /\ row.match_score >= 0
                /\ row.match_score <= 3000 * Len(kws)
                /\ title_hits \cup answer_hits # {}

\* two keywords, one row scored for a title and an answer hit, one for a
\* title hit only
C26_Witness ==
    /\ pc = "searched"
    /\ Len(search_call.keywords) = 2
    /\ \E i, j \in 1..Len(search_rows) :
          search_rows[i].match_score = 3000 /\ search_rows[j].match_score = 2000

(***************************************************************************)
(* C27.  Whatever happens while the session and the chat message are       *)
(* saved, a result that is a valid response is answered with, field for    *)
(* field (the internal _keywords left out); and a row is saved only under  *)
(* a session id that was supplied.                                         *)
(***************************************************************************)
C27_PersistenceIsSideEffect ==
    pc = "responded" =>
        /\ ValidResponse(result) =>
              /\ http_response.status = "ok"
              /\ DOMAIN http_response.body = DOMAIN result \ {"_keywords"}
              /\ \A k \in DOMAIN http_response.body : http_response.body[k] = result[k]
        /\ \A i \in 1..Len(saved) :
              LET id == IF saved[i].table = "chat" THEN saved[i].session_id
                        ELSE saved[i].id
              IN  id.type = "str" /\ id.val # <<>>

\* the chat message could not be saved after the session was, and the
\* request was answered
C27_Witness ==
    /\ pc = "responded"
    /\ Len(saved) = 1
    /\ saved[1].table = "sessions"
    /\ http_response.status = "ok"
    /\ http_response.body = result

(***************************************************************************)
(* C28.  A chat() call that returns has made one composing call, or two    *)
(* when the grounded text holds a not-found phrase (generate_answer, then  *)
(* generate_fallback_answer), and the answer it returns is what the last   *)
(* of them gave.                                                           *)
(***************************************************************************)
ComposingCalls == {i \in 1..Len(calls) : Stage(calls[i].fn) = 6}

\* the answer text in what a composing call returned
AnswerOf(call) ==
    CASE call.fn = "generate_conversational_response" -> Str(call.ret.value)
      [] call.fn = "generate_fallback_answer" -> call.ret.value.answer
      [] OTHER -> call.ret.value

C28_OneComposingCallOrTwo ==
    pc = "done" =>
        LET last == calls[Len(calls)]
            not_found == \E i \in Returned("generate_answer") :
                            /\ calls[i].ret.value.type = "str"
                            /\ HasNotFoundPhrase(calls[i].ret.value.val)
        IN  /\ Len(calls) \in ComposingCalls
            /\ ~last.ret.raised
            /\ result.answer = AnswerOf(last)
            /\ IF not_found
               THEN /\ Cardinality(ComposingCalls) = 2
                    /\ calls[Len(calls) - 1].fn = "generate_answer"
                    /\ last.fn = "generate_fallback_answer"
               ELSE Cardinality(ComposingCalls) = 1

\* a call that composed twice and returned the second text
C28_Witness ==
    /\ pc = "done"
    /\ Cardinality(ComposingCalls) = 2
    /\ result.answer = calls[Len(calls)].ret.value.answer
    /\ result.answer # answer

(***************************************************************************)
(* C29.  When the ranked list handed to composition holds a vector-origin  *)
(* candidate, it holds at most 2 keyword-origin candidates, and every      *)
(* vector-origin candidate in it has a similarity of at least 0.55 and an  *)
(* id no keyword-origin candidate has.                                     *)
(***************************************************************************)
VectorOrigin(c) == "relevance" \in DOMAIN c

C29_VectorCandidatesInRanking ==
    LET vector == {i \in 1..Len(sorted_results) : VectorOrigin(sorted_results[i])}
        keyword == (1..Len(sorted_results)) \ vector
    IN  vector # {} =>
            /\ Cardinality(keyword) <= 2
            /\ \A i \in vector :
                  /\ sorted_results[i].relevance >= 550
                  /\ \A j \in keyword : sorted_results[j].id # sorted_results[i].id

\* two keyword-origin candidates and a vector-origin one at the floor went
\* to generate_answer
C29_Witness ==
    /\ Called("generate_answer")
    /\ Len(sorted_results) >= 3
    /\ Cardinality({i \in 1..Len(sorted_results) : ~VectorOrigin(sorted_results[i])}) = 2
    /\ \E i \in 1..Len(sorted_results) :
          VectorOrigin(sorted_results[i]) /\ sorted_results[i].relevance = 550

(***************************************************************************)
(* C30.  In scrape() consecutive_failures never exceeds 50; a request for  *)
(* a page that is then saved or found in the database sets it to 0, a      *)
(* request that gets no content or a page without a question title adds    *)
(* exactly 1, nothing else changes it; and at 50 no request is made any    *)
(* more and the loop is left.                                              *)
(***************************************************************************)
C30_FailureCounterStep ==
    LET requested == requests' = requests + 1
        processed == current_url \in visited_urls' /\ current_url \notin visited_urls
        success == processed /\ current_url \in question_urls'
    IN  /\ requests' \in {requests, requests + 1}
        /\ ~requested => consecutive_failures' = consecutive_failures
        /\ (requested /\ success) => consecutive_failures' = 0
        /\ (requested /\ ~success /\ pc' # "crawl_failed")
              => consecutive_failures' = consecutive_failures + 1
        /\ (pc = "crawling" /\ consecutive_failures = 50)
              => (~requested /\ pc' = "crawled")

C30_ConsecutiveFailures ==
    /\ [](consecutive_failures <= 50)
    /\ [][C30_FailureCounterStep]_vars

\* the loop was left at 50 failures in a row, after a page had been saved
C30_Witness ==
    /\ pc = "crawled"
    /\ consecutive_failures = 50
    /\ page_outcome = "too_many_failures"
    /\ pages_scraped >= 1
    /\ visited_urls # {}

====
